---- MODULE Spec2Model ----
(***************************************************************************)
(* The chat hub of main.go: ChatHub.run (the control loop), serveWs (the   *)
(* connection handler), ChatClient.readPump and ChatClient.writePump.      *)
(*                                                                         *)
(* Go channels are modelled as follows.  hub.register, hub.unregister and  *)
(* hub.broadcast are unbuffered: a sender stays at its send statement      *)
(* until the control loop takes the value, so a send and the matching      *)
(* receive are one step.  client.send is buffered: a sequence of at most   *)
(* SendCap messages plus the number of close() calls made on it.           *)
(***************************************************************************)
EXTENDS Integers, Sequences, FiniteSets, TLC

\* Capacity of client.send: make(chan ChatMessage, 256), scaled down.
SendCap == 1

\* Number of chat messages created; more than a queue holds, so that a
\* history longer than a queue is replayed.
MaxMsgs == 2

\* Number of register/unregister calls the caller of SpecCalls makes.
MaxCalls == 5

\* The connections: each is one ChatClient, built once by serveWs.
Client == {1, 2}

\* Sender of the welcome message ("System").
System == 0

VARIABLES
    clients,        \* h.clients: the registered clients
    history,        \* h.history
    send,           \* client.send: the buffered messages of each client
    closeCalls,     \* number of close(client.send) calls made for each client
    hubPanicked,    \* the control loop died (close of / send on a closed channel)
    hubState,       \* "select": at the select; "replay": inside the history loop
    hubClient,      \* the client being replayed to (0: none)
    hubIdx,         \* index of the next history entry to replay (0: none)
    unregReqs,      \* number of requests for each client taken from h.unregister
    pc,             \* serveWs of each client
    rpc,            \* readPump of each client
    wpc,            \* writePump of each client
    pending,        \* the message readPump is handing to h.broadcast
    connOpen,       \* the websocket connection is open
    connCloseCalls, \* number of c.conn.Close() calls
    releases,       \* number of Close() calls that found the connection open
    nextId,         \* next fresh message id (uuid.New())
    evicted,        \* history variable: the clients a broadcast evicted
    log,            \* history variable: everything ever put on client.send
    regHistory,     \* history variable: h.history when the client registered
    lastOp,         \* history variable: last register/unregister processed
    net,            \* history variable: net count of registers minus unregisters
    calls,          \* number of calls made in SpecCalls
    persist,        \* storeMessageInDatabase of each message id
    discarded,      \* number of frames of each client that failed to decode
    frames,         \* history variable: the frame each message id was built from
    responders,     \* the autoRespondToMentions goroutines that are running
    inReplyTo,      \* history variable: the message id a response answers (0: none)
    rClients,       \* Hub.clients of the room-aware hub: user id -> client (0: no entry)
    rooms,          \* Hub.rooms: room id -> subscribed clients (no key: no entry)
    roomSubs,       \* Client.roomSubs of each client of the room-aware hub
    rSend,          \* Client.send of each client of the room-aware hub
    rCloseCalls,    \* number of close(client.send) calls of the room-aware hub
    rPanic,         \* the runtime panic of the room-aware hub's process ("none": none)
    rUnregPending,  \* goroutines waiting at "h.unregister <- client"
    bcast,          \* the BroadcastToRoom call of each caller
    rNextId,        \* next fresh room message
    rLog,           \* history variable: everything ever put on a room client's queue
    rCalls,         \* number of calls made in SpecRooms
    rRunSteps,      \* history variable: number of cases Hub.Run has executed
    rRegistered,    \* history variable: clients registered and not unregistered since
    now,            \* the clock of a connection's read deadline
    deadline,       \* the read deadline of the connection
    lastFrame,      \* history variable: time of the last inbound frame (-1: none)
    lastPong,       \* history variable: time of the last pong (-1: none)
    idleClosed,     \* ReadMessage failed on the deadline
    fnIn,           \* the argument of the function applied
    fnOut,          \* the function applied and its result
    wire,           \* history variable: the writes writePump made on the connection
    observers,      \* EventManager.observers: client key -> observers (no key: no entry)
    obsEvents,      \* Observer.events of each observer: the buffered events
    obsCloseCalls,  \* number of close(obs.events); close(obs.closeCh) made for each observer
    unregAt,        \* history variable: the next event id when Unregister closed the observer
    unregCalls,     \* history variable: number of Unregister calls made for each observer
    emNextId,       \* next fresh event
    emLast,         \* history variable: the last Broadcast call
    emPanic,        \* the runtime panic of the resolvers' process ("none": none)
    emCalls,        \* number of calls made in SpecEventCalls
    clientID,       \* the clientID each observer was registered with (0: not yet)
    ctxDone,        \* the context of each subscription is cancelled
    messageChan,    \* messageChan of each subscription: the buffered messages
    messageChanClosed, \* close(messageChan) was called
    cleanupPc,      \* the cleanup goroutine of each subscription
    fwdPc,          \* the forwarding goroutine of each subscription
    fwdEvent,       \* the message the forwarding goroutine is sending
    delivered,      \* history variable: everything ever put on messageChan
    clientSubscribers,  \* ChatService.clientSubscribers: key -> channels (no key: no entry)
    mentionSubscribers, \* ChatService.mentionSubscribers: user id -> channels
    emailSubscribers,   \* EmailService.emailSubscribers
    chBuf,          \* the buffered messages of each subscription channel
    chCloseCalls,   \* number of close(ch) calls made for each subscription channel
    chCall,         \* the Subscribe call that made each channel
    subPc,          \* the Subscribe call of each channel
    unsubPc,        \* the goroutine of each channel that waits for ctx.Done()
    svcCtxDone,     \* the context of each Subscribe call is cancelled
    svcPanic,       \* the runtime panic of the services' process ("none": none)
    svcNextId,      \* next fresh message or email
    svcLast         \* history variable: the last broadcast

hubVars == <<clients, history, send, closeCalls, hubPanicked, hubState,
             hubClient, hubIdx, unregReqs, evicted, log, regHistory, lastOp, net>>

procVars == <<pc, rpc, wpc, pending, connOpen, connCloseCalls, releases,
              nextId>>

vars == <<clients, history, send, closeCalls, hubPanicked, hubState,
          hubClient, hubIdx, unregReqs, evicted, log, regHistory, lastOp, net,
          pc, rpc, wpc, pending, connOpen, connCloseCalls, releases,
          nextId, calls, persist, discarded, frames, responders, inReplyTo, rClients, rooms, roomSubs,
          rSend, rCloseCalls, rPanic, rUnregPending, bcast, rNextId, rLog,
          rCalls, rRunSteps, rRegistered, now, deadline, lastFrame, lastPong, idleClosed, fnIn, fnOut,
          wire, observers, obsEvents, obsCloseCalls, unregAt, unregCalls, emNextId, emLast,
          emPanic, emCalls, clientID, ctxDone, messageChan, messageChanClosed,
          cleanupPc, fwdPc, fwdEvent, delivered, clientSubscribers,
          mentionSubscribers, emailSubscribers, chBuf, chCloseCalls, chCall,
          subPc, unsubPc, svcCtxDone, svcPanic, svcNextId, svcLast>>

ioVars == <<persist, discarded, frames, responders, inReplyTo>>

roomVars == <<rClients, rooms, roomSubs, rSend, rCloseCalls, rPanic,
              rUnregPending, bcast, rNextId, rLog, rCalls, rRunSteps,
              rRegistered>>

idleVars == <<now, deadline, lastFrame, lastPong, idleClosed>>

fnVars == <<fnIn, fnOut>>

\* The EventManager and what its callers keep.
emVars == <<observers, obsEvents, obsCloseCalls, unregAt, unregCalls, emNextId, emLast,
            emPanic, emCalls, clientID>>

\* The goroutines and channels of the subscription resolvers.
subVars == <<ctxDone, messageChan, messageChanClosed, cleanupPc, fwdPc,
             fwdEvent, delivered>>

\* ChatService and EmailService: the subscriber lists and their channels.
svcVars == <<clientSubscribers, mentionSubscribers, emailSubscribers, chBuf,
             chCloseCalls, chCall, subPc, unsubPc, svcCtxDone, svcPanic,
             svcNextId, svcLast>>

\* The publish/subscribe components outside the chat hub.
pubVars == <<emVars, subVars, svcVars>>

\* The state of the other components, which the chat hub does not touch.
otherVars == <<ioVars, roomVars, idleVars, fnVars, pubVars>>

\* What only writePump changes, besides.
extVars == <<otherVars, wire>>

\* type ChatMessage: the fields the hub and the pumps depend on.
ChatMessage(id, sender) == [id |-> id, sender |-> sender]

NoMsg == ChatMessage(0, System)

\* The welcome message of serveWs: a fresh id, sender "System".
WelcomeMsg(c) == ChatMessage(MaxMsgs + c, System)

IsWelcome(m) == m.sender = System

Range(s) == {s[i] : i \in 1..Len(s)}

\* A send on a buffered channel appends at the tail.
Enqueue(q, m) == Append(q, m)

\* A buffered channel with no room blocks a send (or takes the default case).
Full(q) == Len(q) >= SendCap

\* newChatHub, and no connection accepted yet.
InitChat ==
    /\ clients = {}
    /\ history = <<>>
    /\ send = [c \in Client |-> <<>>]
    /\ closeCalls = [c \in Client |-> 0]
    /\ hubPanicked = FALSE
    /\ hubState = "select"
    /\ hubClient = 0
    /\ hubIdx = 0
    /\ pc = [c \in Client |-> "idle"]
    /\ rpc = [c \in Client |-> "none"]
    /\ wpc = [c \in Client |-> "none"]
    /\ pending = [c \in Client |-> NoMsg]
    /\ connOpen = [c \in Client |-> FALSE]
    /\ connCloseCalls = [c \in Client |-> 0]
    /\ releases = [c \in Client |-> 0]
    /\ unregReqs = [c \in Client |-> 0]
    /\ nextId = 1
    /\ evicted = {}
    /\ log = [c \in Client |-> <<>>]
    /\ regHistory = [c \in Client |-> <<>>]
    /\ lastOp = [c \in Client |-> "none"]
    /\ net = [c \in Client |-> 0]
    /\ calls = 0
    /\ wire = [c \in Client |-> <<>>]

----------------------------------------------------------------------------
(* ChatHub.run: the three cases of the select. *)

\* case client := <-h.register, up to the first send of the history loop.
RegisterCase(c) ==
    /\ clients' = clients \cup {c}
    /\ regHistory' = [regHistory EXCEPT ![c] = history]
    /\ lastOp' = [lastOp EXCEPT ![c] = "register"]
    /\ net' = [net EXCEPT ![c] = @ + 1]
    /\ IF history = <<>>
         THEN /\ hubState' = "select"
              /\ hubClient' = 0
              /\ hubIdx' = 0
         ELSE /\ hubState' = "replay"
              /\ hubClient' = c
              /\ hubIdx' = 1
    /\ UNCHANGED <<history, send, closeCalls, hubPanicked, unregReqs, evicted, log>>

\* The replay loop sending a copy without the mentions.
ReplayEntryStripped(h, i) == [h[i] EXCEPT !.mentions = <<>>]

\* The replay loop walking the history from its end.
ReplayEntryReversed(h, i) == h[Len(h) - i + 1]

\* The history entry the i-th iteration of the replay loop sends.
ReplayEntry(h, i) == h[i]

\* One iteration of "for _, msg := range h.history { client.send <- msg }":
\* a blocking send, enabled only while the queue has room.
HubReplayStep ==
    /\ hubState = "replay"
    /\ ~hubPanicked
    /\ IF closeCalls[hubClient] > 0
         THEN /\ hubPanicked' = TRUE
              /\ UNCHANGED <<send, log, hubState, hubClient, hubIdx>>
         ELSE /\ ~Full(send[hubClient])
              /\ send' = [send EXCEPT ![hubClient] =
                             Enqueue(@, ReplayEntry(history, hubIdx))]
              /\ log' = [log EXCEPT ![hubClient] =
                             Append(@, ReplayEntry(history, hubIdx))]
              /\ IF hubIdx = Len(history)
                   THEN /\ hubState' = "select"
                        /\ hubClient' = 0
                        /\ hubIdx' = 0
                   ELSE /\ hubIdx' = hubIdx + 1
                        /\ UNCHANGED <<hubState, hubClient>>
              /\ UNCHANGED hubPanicked
    /\ UNCHANGED <<clients, history, closeCalls, unregReqs, evicted, regHistory,
                   lastOp, net>>
    /\ UNCHANGED procVars
    /\ UNCHANGED calls
    /\ UNCHANGED extVars

\* case client := <-h.unregister without the membership test.
UnregisterCaseNoGuard(c) ==
    /\ clients' = clients \ {c}
    /\ closeCalls' = [closeCalls EXCEPT ![c] = @ + 1]
    /\ hubPanicked' = (hubPanicked \/ closeCalls[c] > 0)
    /\ unregReqs' = [unregReqs EXCEPT ![c] = @ + 1]
    /\ lastOp' = [lastOp EXCEPT ![c] = "unregister"]
    /\ net' = [net EXCEPT ![c] = IF @ > 0 THEN @ - 1 ELSE 0]
    /\ UNCHANGED <<history, send, hubState, hubClient, hubIdx, evicted, log,
                   regHistory>>

\* case client := <-h.unregister, removing the client only when its net
\* count of registrations drops to zero.
UnregisterCaseRefCount(c) ==
    /\ IF c \in clients /\ net[c] <= 1
         THEN /\ clients' = clients \ {c}
              /\ closeCalls' = [closeCalls EXCEPT ![c] = @ + 1]
              /\ hubPanicked' = (hubPanicked \/ closeCalls[c] > 0)
         ELSE UNCHANGED <<clients, closeCalls, hubPanicked>>
    /\ unregReqs' = [unregReqs EXCEPT ![c] = @ + 1]
    /\ lastOp' = [lastOp EXCEPT ![c] = "unregister"]
    /\ net' = [net EXCEPT ![c] = IF @ > 0 THEN @ - 1 ELSE 0]
    /\ UNCHANGED <<history, send, hubState, hubClient, hubIdx, evicted, log,
                   regHistory>>

\* case client := <-h.unregister.
UnregisterCase(c) ==
    /\ IF c \in clients
         THEN /\ clients' = clients \ {c}
              /\ closeCalls' = [closeCalls EXCEPT ![c] = @ + 1]
              /\ hubPanicked' = (hubPanicked \/ closeCalls[c] > 0)
         ELSE UNCHANGED <<clients, closeCalls, hubPanicked>>
    /\ unregReqs' = [unregReqs EXCEPT ![c] = @ + 1]
    /\ lastOp' = [lastOp EXCEPT ![c] = "unregister"]
    /\ net' = [net EXCEPT ![c] = IF @ > 0 THEN @ - 1 ELSE 0]
    /\ UNCHANGED <<history, send, hubState, hubClient, hubIdx, evicted, log,
                   regHistory>>

\* The broadcast case keeping a message only while somebody is registered.
HistoryAppendRegistered(h, m) == IF clients = {} THEN h ELSE Append(h, m)

\* The history growing at its head instead of its tail.
HistoryAppendFront(h, m) == <<m>> \o h

\* "h.history = append(h.history, message)".
HistoryAppend(h, m) == Append(h, m)

\* The fan-out with the default case missing: nobody is evicted.
EvictedNone == {}

\* The clients the fan-out of a broadcast evicts: the default case of the
\* inner select is taken when the send cannot proceed.
Evicted == {c \in clients : Full(send[c])}

\* case message := <-h.broadcast.  The fan-out visits the clients in map
\* order; each visit touches only that client's queue, so the order does
\* not show in the result.
BroadcastCase(m) ==
    /\ history' = HistoryAppend(history, m)
    /\ evicted' = evicted \cup Evicted
    /\ send' = [c \in Client |->
                  IF c \in clients /\ c \notin Evicted /\ closeCalls[c] = 0
                    THEN Enqueue(send[c], m) ELSE send[c]]
    /\ log' = [c \in Client |->
                  IF c \in clients /\ c \notin Evicted /\ closeCalls[c] = 0
                    THEN Append(log[c], m) ELSE log[c]]
    /\ closeCalls' = [c \in Client |->
                  IF c \in Evicted THEN closeCalls[c] + 1 ELSE closeCalls[c]]
    /\ clients' = clients \ Evicted
    /\ hubPanicked' = (hubPanicked \/ \E c \in clients : closeCalls[c] > 0)
    /\ UNCHANGED <<hubState, hubClient, hubIdx, unregReqs, regHistory, lastOp, net>>

HubReady == hubState = "select" /\ ~hubPanicked

----------------------------------------------------------------------------
(* serveWs *)

\* Upgrade succeeded and the ChatClient is built; the handler is now at
\* "client.hub.register <- client".
Connect(c) ==
    /\ pc[c] = "idle"
    /\ pc' = [pc EXCEPT ![c] = "register"]
    /\ connOpen' = [connOpen EXCEPT ![c] = TRUE]
    /\ UNCHANGED <<rpc, wpc, pending, connCloseCalls, releases, nextId>>
    /\ UNCHANGED hubVars
    /\ UNCHANGED calls
    /\ UNCHANGED extVars

\* The control loop takes the client from h.register.
HubRegister(c) ==
    /\ HubReady
    /\ pc[c] = "register"
    /\ RegisterCase(c)
    /\ pc' = [pc EXCEPT ![c] = "welcome"]
    /\ UNCHANGED <<rpc, wpc, pending, connOpen, connCloseCalls, releases, nextId>>
    /\ UNCHANGED calls
    /\ UNCHANGED extVars

\* "client.send <- welcomeMsg", then "go client.writePump()" and
\* "go client.readPump()".  The send blocks while the queue is full and
\* panics when the queue is closed; the panic ends the handler.
SendWelcome(c) ==
    /\ pc[c] = "welcome"
    /\ IF closeCalls[c] > 0
         THEN /\ pc' = [pc EXCEPT ![c] = "panicked"]
              /\ UNCHANGED <<send, log, rpc, wpc>>
         ELSE /\ ~Full(send[c])
              /\ send' = [send EXCEPT ![c] = Enqueue(@, WelcomeMsg(c))]
              /\ log' = [log EXCEPT ![c] = Append(@, WelcomeMsg(c))]
              /\ pc' = [pc EXCEPT ![c] = "started"]
              /\ wpc' = [wpc EXCEPT ![c] = "run"]
              /\ rpc' = [rpc EXCEPT ![c] = "read"]
    /\ UNCHANGED <<clients, history, closeCalls, hubPanicked, hubState,
                   hubClient, hubIdx, unregReqs, evicted, regHistory, lastOp, net>>
    /\ UNCHANGED <<pending, connOpen, connCloseCalls, releases, nextId>>
    /\ UNCHANGED calls
    /\ UNCHANGED extVars

----------------------------------------------------------------------------
(* ChatClient.readPump *)

\* readPump has read a frame that decodes and built the message m from it;
\* it is now at "c.hub.broadcast <- message".
BuildMessage(c, m) ==
    /\ rpc[c] = "read"
    /\ connOpen[c]
    /\ nextId <= MaxMsgs
    /\ pending' = [pending EXCEPT ![c] = m]
    /\ nextId' = nextId + 1
    /\ rpc' = [rpc EXCEPT ![c] = "broadcast"]
    /\ UNCHANGED <<pc, wpc, connOpen, connCloseCalls, releases>>
    /\ UNCHANGED hubVars
    /\ UNCHANGED calls

\* c.conn.ReadMessage() returns a frame that decodes: the pump builds the
\* ChatMessage (here without its content) and is now at
\* "c.hub.broadcast <- message".
ReadMessage(c) ==
    /\ BuildMessage(c, ChatMessage(nextId, c))
    /\ UNCHANGED extVars

\* c.conn.ReadMessage() returns an error (peer closed, read deadline passed,
\* or the connection was closed by writePump): break, and the deferred
\* function is now at "c.hub.unregister <- c".
ReadError(c) ==
    /\ rpc[c] = "read"
    /\ rpc' = [rpc EXCEPT ![c] = "unregister"]
    /\ UNCHANGED <<pc, wpc, pending, connOpen, connCloseCalls, releases, nextId>>
    /\ UNCHANGED hubVars
    /\ UNCHANGED calls
    /\ UNCHANGED extVars

\* readPump waiting for the persistence step before its next frame.
AfterBroadcastWait(c) == "persist"

\* readPump after "c.hub.broadcast <- message": the persistence step and the
\* auto-responder are started with "go", and the loop reads the next frame.
AfterBroadcast(c) == "read"

\* The rendezvous on h.broadcast: the control loop runs its broadcast case
\* with the message readPump built.
TakeBroadcast(c) ==
    /\ HubReady
    /\ rpc[c] = "broadcast"
    /\ BroadcastCase(pending[c])
    /\ rpc' = [rpc EXCEPT ![c] = AfterBroadcast(c)]
    /\ pending' = [pending EXCEPT ![c] = NoMsg]
    /\ UNCHANGED <<pc, wpc, connOpen, connCloseCalls, releases, nextId>>
    /\ UNCHANGED calls

\* The control loop takes the message from h.broadcast; readPump goes on to
\* the next frame.
HubBroadcast(c) ==
    /\ TakeBroadcast(c)
    /\ UNCHANGED extVars

\* The deferred function of readPump returning after its rendezvous with
\* the hub, without c.conn.Close().
AfterUnregisterNoClose(c) == "done"

\* The deferred function of readPump goes on to c.conn.Close().
AfterUnregister(c) == "close"

\* The control loop takes the client from h.unregister.
HubUnregister(c) ==
    /\ HubReady
    /\ rpc[c] = "unregister"
    /\ UnregisterCase(c)
    /\ rpc' = [rpc EXCEPT ![c] = AfterUnregister(c)]
    /\ UNCHANGED <<pc, wpc, pending, connOpen, connCloseCalls, releases, nextId>>
    /\ UNCHANGED calls
    /\ UNCHANGED extVars

\* c.conn.Close(): the first call releases the connection, a later call
\* returns an error and changes nothing.
ConnClose(c) ==
    /\ connCloseCalls' = [connCloseCalls EXCEPT ![c] = @ + 1]
    /\ releases' = [releases EXCEPT ![c] = IF connOpen[c] THEN @ + 1 ELSE @]
    /\ connOpen' = [connOpen EXCEPT ![c] = FALSE]

\* The deferred function of readPump closing the send queue itself.
ReadPumpCloseQueue(c) ==
    /\ rpc[c] = "close"
    /\ ConnClose(c)
    /\ rpc' = [rpc EXCEPT ![c] = "done"]
    /\ closeCalls' = [closeCalls EXCEPT ![c] = @ + 1]
    /\ UNCHANGED <<clients, history, send, hubPanicked, hubState, hubClient,
                   hubIdx, unregReqs, evicted, log, regHistory, lastOp, net>>
    /\ UNCHANGED <<pc, wpc, pending, nextId>>
    /\ UNCHANGED calls
    /\ UNCHANGED extVars

\* The deferred c.conn.Close() of readPump.
ReadPumpClose(c) ==
    /\ rpc[c] = "close"
    /\ ConnClose(c)
    /\ rpc' = [rpc EXCEPT ![c] = "done"]
    /\ UNCHANGED <<pc, wpc, pending, nextId>>
    /\ UNCHANGED hubVars
    /\ UNCHANGED calls
    /\ UNCHANGED extVars

----------------------------------------------------------------------------
(* ChatClient.writePump *)

\* A text frame with the message m written to the connection; ok tells
\* whether NextWriter and w.Close() returned no error.
MessageFrame(m, ok) == [kind |-> "message", msg |-> m, ok |-> ok]

\* The close frame of "c.conn.WriteMessage(websocket.CloseMessage, []byte{})";
\* its error is not looked at.
CloseFrame(ok) == [kind |-> "close", msg |-> NoMsg, ok |-> ok]

\* writePump staying in its loop after a write that failed.
AfterWriteFailedRun(c) == "run"

\* "return" after an error of NextWriter or w.Close().
AfterWriteFailed(c) == "done"

\* "case message, ok := <-c.send" with a message: it is written to the
\* connection; a failed NextWriter or w.Close() returns, and the deferred
\* function closes the connection.  A write on a closed connection fails.
WriteMessage(c) ==
    /\ wpc[c] = "run"
    /\ send[c] # <<>>
    /\ send' = [send EXCEPT ![c] = Tail(@)]
    /\ \E ok \in BOOLEAN :
         /\ ok => connOpen[c]
         /\ wire' = [wire EXCEPT ![c] = Append(@, MessageFrame(Head(send[c]), ok))]
         /\ IF ok
              THEN UNCHANGED <<wpc, connOpen, connCloseCalls, releases>>
              ELSE /\ wpc' = [wpc EXCEPT ![c] = AfterWriteFailed(c)]
                   /\ ConnClose(c)
    /\ UNCHANGED <<clients, history, closeCalls, hubPanicked, hubState,
                   hubClient, hubIdx, unregReqs, evicted, log, regHistory, lastOp, net>>
    /\ UNCHANGED <<pc, rpc, pending, nextId>>
    /\ UNCHANGED calls
    /\ UNCHANGED otherVars

\* "case message, ok := <-c.send" with the !ok test missing: the pump stays
\* in its loop.
WriteClosedNoExit(c) ==
    /\ wpc[c] = "run"
    /\ send[c] = <<>>
    /\ closeCalls[c] > 0
    /\ UNCHANGED vars

\* "case message, ok := <-c.send" with !ok: the queue is closed and empty;
\* the pump writes the close frame and returns.
WriteClosed(c) ==
    /\ wpc[c] = "run"
    /\ send[c] = <<>>
    /\ closeCalls[c] > 0
    /\ wpc' = [wpc EXCEPT ![c] = "done"]
    /\ wire' = [wire EXCEPT ![c] = Append(@, CloseFrame(connOpen[c]))]
    /\ ConnClose(c)
    /\ UNCHANGED <<pc, rpc, pending, nextId>>
    /\ UNCHANGED hubVars
    /\ UNCHANGED calls
    /\ UNCHANGED otherVars

\* "case <-ticker.C" with a failed ping write: return.  (A ping that is
\* written changes nothing in this state.)
WritePingFailed(c) ==
    /\ wpc[c] = "run"
    /\ wpc' = [wpc EXCEPT ![c] = "done"]
    /\ ConnClose(c)
    /\ UNCHANGED <<pc, rpc, pending, nextId>>
    /\ UNCHANGED hubVars
    /\ UNCHANGED calls
    /\ UNCHANGED extVars

----------------------------------------------------------------------------
(* readPump with the content of the frames, storeMessageInDatabase and     *)
(* autoRespondToMentions.                                                   *)

\* Number of frames that fail to decode.
MaxBadFrames == 1

\* Number of messages autoRespondToMentions creates.
MaxResponses == 1

\* The ids of the messages: those readPump and autoRespondToMentions create.
MaxIds == MaxMsgs + MaxResponses

\* The names a content can mention: the usernames of the connections.
Name == Client

\* The empty string in the place of a name.
NoName == 0

\* A word of a content, as strings.Fields splits it: an optional "@", a
\* name or nothing, and optional trailing punctuation.
Word(at, body, trail) == [at |-> at, body |-> body, trail |-> trail]

\* The word "@name".
At(n) == Word(TRUE, n, FALSE)

\* A word without "@".
Plain == Word(FALSE, NoName, FALSE)

\* len(word)
WordLen(w) ==
    (IF w.at THEN 1 ELSE 0) + (IF w.body # NoName THEN 1 ELSE 0)
        + (IF w.trail THEN 1 ELSE 0)

\* word[1:] with the characters that are not part of a name trimmed off.
TrimWord(w) == w.body

\* parseMentions, first definition: every word that starts with "@" and
\* has a name left after trimming is appended.
RECURSIVE parseMentions(_)
parseMentions(content) ==
    IF content = <<>> THEN <<>>
    ELSE LET w == Head(content)
         IN  IF w.at /\ WordLen(w) > 1 /\ TrimWord(w) # NoName
               THEN <<TrimWord(w)>> \o parseMentions(Tail(content))
               ELSE parseMentions(Tail(content))

\* The keys of mentionsMap in the second definition of parseMentions.
MentionsMap(content) ==
    {TrimWord(content[i]) : i \in {j \in 1..Len(content) :
        content[j].at /\ TrimWord(content[j]) # NoName}}

\* parseMentions, second definition: the keys of the map in the order the
\* range over the map yields them, which Go leaves unspecified: the set of
\* the slices the function can return.
parseMentionsMap(content) ==
    {s \in [1..Cardinality(MentionsMap(content)) -> MentionsMap(content)] :
        \A i, j \in DOMAIN s : i # j => s[i] # s[j]}

\* ExtractMentions: the matches of @(\w+) in order, each name once.
RECURSIVE ExtractMentions(_)
ExtractMentions(content) ==
    IF content = <<>> THEN <<>>
    ELSE LET before == ExtractMentions(SubSeq(content, 1, Len(content) - 1))
             w == content[Len(content)]
         IN  IF w.at /\ w.body # NoName /\ w.body \notin Range(before)
               THEN Append(before, w.body)
               ELSE before

\* The ChatMessage readPump builds, with all its fields.
FullMessage(id, sender, content, mentions, ts) ==
    [id |-> id, sender |-> sender, content |-> content,
     mentions |-> mentions, timestamp |-> ts]

\* The contents of the frames the clients send.
FrameContent == {<<Plain>>, <<Plain, At(1)>>}

\* No frame read for a message id.
NoFrame == [content |-> <<>>, from |-> 0]

InitIO ==
    /\ persist = [i \in 1..MaxIds |-> "none"]
    /\ discarded = [c \in Client |-> 0]
    /\ frames = [i \in 1..MaxIds |-> NoFrame]
    /\ responders = {}
    /\ inReplyTo = [i \in 1..MaxIds |-> 0]

\* c.conn.ReadMessage() returns a frame that decodes to a content: the pump
\* parses the mentions and builds the ChatMessage.  main.go defines
\* parseMentions twice; the message has the result of either.
ReadFrame(c) ==
    \E content \in FrameContent :
      \E mentions \in {parseMentions(content)} \cup parseMentionsMap(content) :
        /\ BuildMessage(c, FullMessage(nextId, c, content, mentions, now))
        /\ frames' = [frames EXCEPT ![nextId] = [content |-> content, from |-> c]]
        /\ UNCHANGED <<persist, discarded, responders, inReplyTo>>
        /\ UNCHANGED <<roomVars, idleVars, fnVars, wire, pubVars>>

\* The number of frames of the clients in S that failed to decode.
RECURSIVE Discarded(_)
Discarded(S) ==
    IF S = {} THEN 0
    ELSE LET c == CHOOSE d \in S : TRUE
         IN  discarded[c] + Discarded(S \ {c})

\* readPump leaving its loop on a frame that fails to decode.
AfterMalformedBreak(c) == "unregister"

\* "continue" after json.Unmarshal failed.
AfterMalformed(c) == "read"

\* c.conn.ReadMessage() returns a frame that json.Unmarshal rejects: the
\* error is logged and the loop continues.
ReadMalformed(c) ==
    /\ rpc[c] = "read"
    /\ connOpen[c]
    /\ Discarded(Client) < MaxBadFrames
    /\ discarded' = [discarded EXCEPT ![c] = @ + 1]
    /\ rpc' = [rpc EXCEPT ![c] = AfterMalformed(c)]
    /\ UNCHANGED <<pc, wpc, pending, connOpen, connCloseCalls, releases, nextId>>
    /\ UNCHANGED hubVars
    /\ UNCHANGED calls
    /\ UNCHANGED <<persist, frames, responders, inReplyTo>>
    /\ UNCHANGED <<roomVars, idleVars, fnVars, wire, pubVars>>

\* The auto-responder goroutine readPump starts for a message with mentions.
Responder(m) == [replyTo |-> m.id, sender |-> m.sender, todo |-> m.mentions]

\* "c.hub.broadcast <- message", "go storeMessageInDatabase(...)" and, for
\* a message with mentions, "go autoRespondToMentions(...)".
BroadcastAndGo(c) ==
    /\ TakeBroadcast(c)
    /\ persist' = [persist EXCEPT ![pending[c].id] = "running"]
    /\ responders' = IF Len(pending[c].mentions) > 0
                       THEN responders \cup {Responder(pending[c])}
                       ELSE responders
    /\ UNCHANGED <<discarded, frames, inReplyTo>>
    /\ UNCHANGED <<roomVars, idleVars, fnVars, wire, pubVars>>

\* storeMessageInDatabase returns: the message was stored, a database call
\* failed and was logged, or a panic was recovered by the deferred function.
\* A call that never returns stays "running".
storeMessageInDatabase(i) ==
    /\ persist[i] = "running"
    /\ \E outcome \in {"stored", "failed", "recovered"} :
         persist' = [persist EXCEPT ![i] = outcome]
    /\ UNCHANGED <<discarded, frames, responders, inReplyTo>>
    /\ UNCHANGED <<hubVars, procVars, calls>>
    /\ UNCHANGED <<roomVars, idleVars, fnVars, wire, pubVars>>

\* The response to the mention of a name: sender the name, content
\* "@sender text", mentions the sender.
ResponseMsg(id, mention, sender, ts) ==
    FullMessage(id, mention, <<At(sender), Plain>>, <<sender>>, ts)

\* The loop of autoRespondToMentions answering every mention.
SkipMentionNever(mention, sender) == FALSE

\* "if mention == sender { continue }"
SkipMention(mention, sender) == mention = sender

\* One iteration of the loop of autoRespondToMentions: a mention of the
\* sender is skipped, any other is answered with a message sent on
\* hub.broadcast and then stored.
autoRespondToMentions(i) ==
    /\ \E r \in responders :
         /\ r.replyTo = i
         /\ LET mention == Head(r.todo)
                rest == IF Len(r.todo) > 1
                          THEN {[r EXCEPT !.todo = Tail(r.todo)]} ELSE {}
            IN  /\ responders' = (responders \ {r}) \cup rest
                /\ IF SkipMention(mention, r.sender)
                     THEN UNCHANGED <<hubVars, nextId, persist, inReplyTo>>
                     ELSE /\ HubReady
                          /\ nextId <= MaxIds
                          /\ BroadcastCase(ResponseMsg(nextId, mention,
                                                       r.sender, now))
                          /\ nextId' = nextId + 1
                          /\ persist' = [persist EXCEPT ![nextId] = "running"]
                          /\ inReplyTo' = [inReplyTo EXCEPT ![nextId] = i]
    /\ UNCHANGED <<pc, rpc, wpc, pending, connOpen, connCloseCalls, releases>>
    /\ UNCHANGED calls
    /\ UNCHANGED <<discarded, frames>>
    /\ UNCHANGED <<roomVars, idleVars, fnVars, wire, pubVars>>

\* writePump writing a message to a transport that takes it.
WriteDelivered(c) == WriteMessage(c) /\ wpc'[c] = "run"

\* The message path while the transports of the connections are up: the
\* handler, the control loop, readPump on frames that decode or do not,
\* the goroutines readPump starts, and writePump on writes that succeed.
NextIO ==
    \/ \E c \in Client : Connect(c)
    \/ \E c \in Client : HubRegister(c)
    \/ HubReplayStep
    \/ \E c \in Client : SendWelcome(c)
    \/ \E c \in Client : ReadFrame(c)
    \/ \E c \in Client : ReadMalformed(c)
    \/ \E c \in Client : BroadcastAndGo(c)
    \/ \E i \in 1..MaxIds : storeMessageInDatabase(i)
    \/ \E i \in 1..MaxMsgs : autoRespondToMentions(i)
    \/ \E c \in Client : WriteDelivered(c)

----------------------------------------------------------------------------
(* The room-aware hub (package websocket): Hub.Run, SubscribeToRoom,       *)
(* UnsubscribeFromRoom, BroadcastToRoom and SendToUser, under an arbitrary *)
(* caller.  h.mu is a sync.RWMutex: Run, SubscribeToRoom and               *)
(* UnsubscribeFromRoom hold it for writing and are one step each;          *)
(* BroadcastToRoom holds it for reading, together with any other reader,   *)
(* for as long as its loop over the room runs.                             *)

\* Number of register, unregister, subscribe and unsubscribe calls.
MaxRoomCalls == 4

\* Number of messages sent with BroadcastToRoom and SendToUser.
MaxRoomMsgs == 2

\* The clients of the room-aware hub.
RClient == {1, 2, 3}

\* client.userID: clients 1 and 2 are connections of the same user.
UserOf(c) == IF c = 3 THEN 2 ELSE 1

User == {UserOf(c) : c \in RClient}

\* The room ids.
Room == {1}

\* The goroutines that call BroadcastToRoom.
Caller == {1, 2}

\* No entry in h.clients.
NoClient == 0

\* A message sent to a room, or to a user (room 0).
RoomMsg(id, r) == [id |-> id, room |-> r]

\* A caller that is not inside BroadcastToRoom.
Idle == [room |-> 0, msg |-> RoomMsg(0, 0), todo |-> {}]

InitRooms ==
    /\ rClients = [u \in User |-> NoClient]
    /\ rooms = <<>>
    /\ roomSubs = [c \in RClient |-> {}]
    /\ rSend = [c \in RClient |-> <<>>]
    /\ rCloseCalls = [c \in RClient |-> 0]
    /\ rPanic = "none"
    /\ rUnregPending = [c \in RClient |-> 0]
    /\ bcast = [k \in Caller |-> Idle]
    /\ rNextId = 1
    /\ rLog = [c \in RClient |-> <<>>]
    /\ rCalls = 0
    /\ rRunSteps = 0
    /\ rRegistered = {}

\* Somebody holds h.mu for reading.
ReadLocked == \E k \in Caller : bcast[k] # Idle

\* The process is alive and h.mu can be taken for writing.
CanLock == rPanic = "none" /\ ~ReadLocked

\* What none of the steps of the room-aware hub touches.
notRoomVars == <<hubVars, procVars, calls, ioVars, idleVars, fnVars, wire,
                pubVars>>

\* case client := <-h.register
RoomRegister(c) ==
    /\ CanLock
    /\ rCalls < MaxRoomCalls
    /\ rCloseCalls[c] = 0
    /\ rClients' = [rClients EXCEPT ![UserOf(c)] = c]
    /\ rCalls' = rCalls + 1
    /\ UNCHANGED <<rooms, roomSubs, rSend, rCloseCalls, rPanic, rUnregPending,
                   bcast, rNextId, rLog>>
    /\ rRunSteps' = rRunSteps + 1
    /\ rRegistered' = rRegistered \cup {c}
    /\ UNCHANGED notRoomVars

\* delete(room, client) without the removal of a room left empty.
LeaveRoomsKept(rs, c, subs) ==
    [r \in DOMAIN rs |-> IF r \in subs THEN rs[r] \ {c} ELSE rs[r]]

\* delete(room, client) and the removal of a room left empty, for the rooms
\* in subs.
LeaveRooms(rs, c, subs) ==
    LET keep == {r \in DOMAIN rs : r \notin subs \/ rs[r] \ {c} # {}}
    IN  [r \in keep |-> IF r \in subs THEN rs[r] \ {c} ELSE rs[r]]

\* case client := <-h.unregister: the test is on the entry of the client's
\* user id, whichever client that entry holds.  close() of a closed channel
\* panics, before the rooms are cleaned up.
RoomUnregisterCase(c) ==
    IF rClients[UserOf(c)] # NoClient
      THEN /\ rClients' = [rClients EXCEPT ![UserOf(c)] = NoClient]
           /\ rCloseCalls' = [rCloseCalls EXCEPT ![c] = @ + 1]
           /\ IF rCloseCalls[c] > 0
                THEN /\ rPanic' = "close of closed channel"
                     /\ UNCHANGED rooms
                ELSE /\ rooms' = LeaveRooms(rooms, c, roomSubs[c])
                     /\ UNCHANGED rPanic
      ELSE UNCHANGED <<rClients, rCloseCalls, rPanic, rooms>>

\* An unregister request sent by the owner of the client.
RoomUnregister(c) ==
    /\ CanLock
    /\ rCalls < MaxRoomCalls
    /\ RoomUnregisterCase(c)
    /\ rCalls' = rCalls + 1
    /\ UNCHANGED <<roomSubs, rSend, rUnregPending, bcast, rNextId, rLog>>
    /\ rRunSteps' = rRunSteps + 1
    /\ rRegistered' = rRegistered \ {c}
    /\ UNCHANGED notRoomVars

\* An unregister request sent by a goroutine that BroadcastToRoom or
\* SendToUser started ("go h.unregister <- client").
RoomUnregisterEvicted(c) ==
    /\ CanLock
    /\ rUnregPending[c] > 0
    /\ RoomUnregisterCase(c)
    /\ rUnregPending' = [rUnregPending EXCEPT ![c] = @ - 1]
    /\ UNCHANGED <<roomSubs, rSend, bcast, rNextId, rLog, rCalls>>
    /\ rRunSteps' = rRunSteps + 1
    /\ rRegistered' = rRegistered \ {c}
    /\ UNCHANGED notRoomVars

\* SubscribeToRoom entering the client in h.clients itself.
SubscribeToRoomRegister(c, r) ==
    /\ CanLock
    /\ rCalls < MaxRoomCalls
    /\ rooms' = [q \in DOMAIN rooms \cup {r} |->
                    IF q = r
                      THEN (IF r \in DOMAIN rooms THEN rooms[r] ELSE {}) \cup {c}
                      ELSE rooms[q]]
    /\ roomSubs' = [roomSubs EXCEPT ![c] = @ \cup {r}]
    /\ rClients' = [rClients EXCEPT ![UserOf(c)] = c]
    /\ rCalls' = rCalls + 1
    /\ UNCHANGED <<rSend, rCloseCalls, rPanic, rUnregPending, bcast,
                   rNextId, rLog, rRunSteps, rRegistered>>
    /\ UNCHANGED notRoomVars

\* SubscribeToRoom: the room index and the client's own set, under h.mu;
\* whether the client is registered is not looked at.
SubscribeToRoom(c, r) ==
    /\ CanLock
    /\ rCalls < MaxRoomCalls
    /\ rooms' = [q \in DOMAIN rooms \cup {r} |->
                    IF q = r
                      THEN (IF r \in DOMAIN rooms THEN rooms[r] ELSE {}) \cup {c}
                      ELSE rooms[q]]
    /\ roomSubs' = [roomSubs EXCEPT ![c] = @ \cup {r}]
    /\ rCalls' = rCalls + 1
    /\ UNCHANGED <<rClients, rSend, rCloseCalls, rPanic, rUnregPending, bcast,
                   rNextId, rLog>>
    /\ UNCHANGED <<rRunSteps, rRegistered>>
    /\ UNCHANGED notRoomVars

\* UnsubscribeFromRoom, under h.mu.
UnsubscribeFromRoom(c, r) ==
    /\ CanLock
    /\ rCalls < MaxRoomCalls
    /\ rooms' = LeaveRooms(rooms, c, {r})
    /\ roomSubs' = [roomSubs EXCEPT ![c] = @ \ {r}]
    /\ rCalls' = rCalls + 1
    /\ UNCHANGED <<rClients, rSend, rCloseCalls, rPanic, rUnregPending, bcast,
                   rNextId, rLog>>
    /\ UNCHANGED <<rRunSteps, rRegistered>>
    /\ UNCHANGED notRoomVars

\* "select { case client.send <- message: default: go h.unregister <- client }".
\* A send on a closed channel panics.
TrySend(c, m) ==
    IF rCloseCalls[c] > 0
      THEN /\ rPanic' = "send on closed channel"
           /\ UNCHANGED <<rSend, rLog, rUnregPending>>
      ELSE /\ UNCHANGED rPanic
           /\ IF Full(rSend[c])
                THEN /\ rUnregPending' = [rUnregPending EXCEPT ![c] = @ + 1]
                     /\ UNCHANGED <<rSend, rLog>>
                ELSE /\ rSend' = [rSend EXCEPT ![c] = Enqueue(@, m)]
                     /\ rLog' = [rLog EXCEPT ![c] = Append(@, m)]
                     /\ UNCHANGED rUnregPending

\* BroadcastToRoom up to its loop: h.mu.RLock(), which other readers do not
\* exclude, and the look-up of the room.
BroadcastToRoom(k, r) ==
    /\ rPanic = "none"
    /\ bcast[k] = Idle
    /\ rNextId <= MaxRoomMsgs
    /\ rNextId' = rNextId + 1
    /\ bcast' = [bcast EXCEPT ![k] =
                    IF r \in DOMAIN rooms
                      THEN [room |-> r, msg |-> RoomMsg(rNextId, r), todo |-> rooms[r]]
                      ELSE Idle]
    /\ UNCHANGED <<rClients, rooms, roomSubs, rSend, rCloseCalls, rPanic,
                   rUnregPending, rLog, rCalls>>
    /\ UNCHANGED <<rRunSteps, rRegistered>>
    /\ UNCHANGED notRoomVars

\* One iteration of "for client := range room", in the order the range
\* yields the clients; after the last one the deferred RUnlock runs.
BroadcastToRoomSend(k) ==
    /\ rPanic = "none"
    /\ bcast[k] # Idle
    /\ \E c \in bcast[k].todo :
         /\ TrySend(c, bcast[k].msg)
         /\ bcast' = [bcast EXCEPT ![k] =
                         IF bcast[k].todo = {c} THEN Idle
                         ELSE [bcast[k] EXCEPT !.todo = @ \ {c}]]
    /\ UNCHANGED <<rClients, rooms, roomSubs, rCloseCalls, rNextId, rCalls>>
    /\ UNCHANGED <<rRunSteps, rRegistered>>
    /\ UNCHANGED notRoomVars

\* SendToUser: one send to the client h.clients holds for the user id.
SendToUser(u) ==
    /\ rPanic = "none"
    /\ rNextId <= MaxRoomMsgs
    /\ rNextId' = rNextId + 1
    /\ IF rClients[u] # NoClient
         THEN TrySend(rClients[u], RoomMsg(rNextId, 0))
         ELSE UNCHANGED <<rSend, rLog, rUnregPending, rPanic>>
    /\ UNCHANGED <<rClients, rooms, roomSubs, rCloseCalls, bcast, rCalls>>
    /\ UNCHANGED <<rRunSteps, rRegistered>>
    /\ UNCHANGED notRoomVars

\* The owner of a client taking a message off client.send.
RoomReceive(c) ==
    /\ rPanic = "none"
    /\ rSend[c] # <<>>
    /\ rSend' = [rSend EXCEPT ![c] = Tail(@)]
    /\ UNCHANGED <<rClients, rooms, roomSubs, rCloseCalls, rPanic,
                   rUnregPending, bcast, rNextId, rLog, rCalls>>
    /\ UNCHANGED <<rRunSteps, rRegistered>>
    /\ UNCHANGED notRoomVars

NextRooms ==
    \/ \E c \in RClient : RoomRegister(c)
    \/ \E c \in RClient : RoomUnregister(c)
    \/ \E c \in RClient : RoomUnregisterEvicted(c)
    \/ \E c \in RClient, r \in Room : SubscribeToRoom(c, r)
    \/ \E c \in RClient, r \in Room : UnsubscribeFromRoom(c, r)
    \/ \E k \in Caller, r \in Room : BroadcastToRoom(k, r)
    \/ \E k \in Caller : BroadcastToRoomSend(k)
    \/ \E u \in User : SendToUser(u)
    \/ \E c \in RClient : RoomReceive(c)

----------------------------------------------------------------------------
(* The read deadline of one connection, from the start of its readPump.    *)
(* Time is counted in units of 30 seconds.                                  *)

\* The idle window set with SetReadDeadline: 60 seconds.
Window == 2

\* The time the clock runs to.
MaxTime == 8

\* readPump before its loop: SetReadDeadline(time.Now().Add(60 * time.Second)).
InitIdle ==
    /\ now = 0
    /\ deadline = Window
    /\ lastFrame = -1
    /\ lastPong = -1
    /\ idleClosed = FALSE

\* What the steps of this part do not touch.
notIdleVars == <<hubVars, procVars, calls, ioVars, roomVars, fnVars, wire,
                pubVars>>

\* Time passes while ReadMessage waits.
Tick ==
    /\ ~idleClosed
    /\ now < MaxTime
    /\ now' = now + 1
    /\ UNCHANGED <<deadline, lastFrame, lastPong, idleClosed>>
    /\ UNCHANGED notIdleVars

\* c.conn.ReadMessage() returns a frame, which it does only up to the
\* deadline; nothing in the loop sets the deadline again.
RecvFrame ==
    /\ ~idleClosed
    /\ now <= deadline
    /\ lastFrame' = now
    /\ UNCHANGED <<now, deadline, lastPong, idleClosed>>
    /\ UNCHANGED notIdleVars

\* A pong arrives: the pong handler sets the deadline 60 seconds ahead.
RecvPong ==
    /\ ~idleClosed
    /\ now <= deadline
    /\ lastPong' = now
    /\ deadline' = now + Window
    /\ UNCHANGED <<now, lastFrame, idleClosed>>
    /\ UNCHANGED notIdleVars

\* c.conn.ReadMessage() fails because the deadline has passed: break.
ReadDeadlinePassed ==
    /\ ~idleClosed
    /\ now > deadline
    /\ idleClosed' = TRUE
    /\ UNCHANGED <<now, deadline, lastFrame, lastPong>>
    /\ UNCHANGED notIdleVars

NextIdle ==
    \/ Tick
    \/ RecvFrame
    \/ RecvPong
    \/ ReadDeadlinePassed

----------------------------------------------------------------------------
(* The GraphQL subscriptions (package resolvers): the EventManager and the *)
(* MessageCreated resolver with its cleanup and forwarding goroutines.     *)
(* m.mu is a sync.RWMutex: Register and Unregister hold it for writing and *)
(* are one step each.  Broadcast holds it for reading and never blocks;    *)
(* its loop touches each observer's channel once, and a receive from one   *)
(* channel commutes with a send to another, so the loop is one step.       *)
(* EmailCreated and TimelineEventCreated differ only in the type they      *)
(* forward.                                                                 *)

\* Capacity of observer.events (10 in NewObserver), kept small.
EventsCap == 1

\* Capacity of the typed result channel: make(chan *model.Message, 1).
ResultCap == 1

\* Number of Broadcast calls.
MaxEvents == 2

\* Number of Register and Unregister calls in SpecEventCalls.
MaxEMCalls == 4

\* The subscriptions; each has the observer NewObserver made for it, which
\* goes by the same number.
Sub == {1, 2}

\* clientID.String().
ClientKey == {1, 2}

\* No clientID: the subscription has not been made.
NoKey == 0

\* The dynamic type of an event: *model.Message or another one.
EventKind == {"Message", "Email"}

Event(id, kind) == [id |-> id, kind |-> kind]

NoEvent == Event(0, "none")

\* No Broadcast call yet.
NoBroadcast == [key |-> NoKey, event |-> NoEvent]

InitEvents ==
    /\ observers = <<>>
    /\ obsEvents = [o \in Sub |-> <<>>]
    /\ obsCloseCalls = [o \in Sub |-> 0]
    /\ unregAt = [o \in Sub |-> 0]
    /\ unregCalls = [o \in Sub |-> 0]
    /\ emNextId = 1
    /\ emLast = NoBroadcast
    /\ emPanic = "none"
    /\ emCalls = 0
    /\ clientID = [s \in Sub |-> NoKey]
    /\ ctxDone = [s \in Sub |-> FALSE]
    /\ messageChan = [s \in Sub |-> <<>>]
    /\ messageChanClosed = [s \in Sub |-> FALSE]
    /\ cleanupPc = [s \in Sub |-> "idle"]
    /\ fwdPc = [s \in Sub |-> "idle"]
    /\ fwdEvent = [s \in Sub |-> NoEvent]
    /\ delivered = [s \in Sub |-> <<>>]

\* What none of the steps of the subscriptions touches.
notPubVars == <<hubVars, procVars, calls, ioVars, roomVars, idleVars, fnVars,
                wire, svcVars>>

\* m.observers[key], nil when the map has no such key.
ObserversOf(obs, key) == IF key \in DOMAIN obs THEN obs[key] ELSE <<>>

\* Register: m.observers[key] = append(m.observers[key], observer).
Register(obs, key, o) ==
    [q \in DOMAIN obs \cup {key} |->
        IF q = key THEN Append(ObserversOf(obs, key), o) ELSE obs[q]]

\* The index at which "for i, obs := range observers" finds obs.id ==
\* observer.id (0: nowhere).
MatchIndex(list, o) ==
    IF \E i \in 1..Len(list) : list[i] = o
      THEN CHOOSE i \in 1..Len(list) :
               /\ list[i] = o
               /\ \A j \in 1..(i - 1) : list[j] # o
      ELSE 0

\* The matching entry stays in the slice.
RemoveAtKept(list, i) == list

\* append(observers[:i], observers[i+1:]...).
RemoveAt(list, i) == SubSeq(list, 1, i - 1) \o SubSeq(list, i + 1, Len(list))

\* The map after Unregister, which leaves list for the key:
\* "if len(m.observers[key]) == 0 { delete(m.observers, key) }".
CleanUp(obs, key, list) ==
    IF list = <<>>
      THEN [q \in DOMAIN obs \ {key} |-> obs[q]]
      ELSE [obs EXCEPT ![key] = list]

\* Unregister(clientID, observer), under m.mu.Lock(): the first entry with
\* the observer's id is removed and its two channels are closed; close() of
\* a closed channel panics.
Unregister(key, o) ==
    LET list == ObserversOf(observers, key)
        i    == MatchIndex(list, o)
    IN  /\ unregCalls' = [unregCalls EXCEPT ![o] = @ + 1]
        /\ IF i # 0
             THEN /\ obsCloseCalls' = [obsCloseCalls EXCEPT ![o] = @ + 1]
                  /\ unregAt' = [unregAt EXCEPT ![o] = emNextId]
                  /\ IF obsCloseCalls[o] > 0
                       THEN /\ emPanic' = "close of closed channel"
                            /\ observers' = [observers EXCEPT ![key] = RemoveAt(list, i)]
                       ELSE /\ observers' = CleanUp(observers, key, RemoveAt(list, i))
                            /\ UNCHANGED emPanic
             ELSE /\ observers' = CleanUp(observers, key, list)
                  /\ UNCHANGED <<obsCloseCalls, unregAt, emPanic>>

\* "select { case observer.events <- event: default: }" for each observer
\* of the slice in turn; a send on a closed channel panics.
RECURSIVE TrySendAll(_, _, _, _, _)
TrySendAll(chs, bufs, closes, cap, ev) ==
    IF chs = <<>>
      THEN [bufs |-> bufs, panic |-> FALSE]
      ELSE LET ch == Head(chs)
           IN  IF closes[ch] > 0
                 THEN [bufs |-> bufs, panic |-> TRUE]
                 ELSE TrySendAll(Tail(chs),
                                 IF Len(bufs[ch]) < cap
                                   THEN [bufs EXCEPT ![ch] = Append(@, ev)]
                                   ELSE bufs,
                                 closes, cap, ev)

\* Broadcast(clientID, event, eventType), as PublishMessage and PublishEmail
\* call it.
Broadcast(key, kind) ==
    /\ emPanic = "none"
    /\ emNextId <= MaxEvents
    /\ LET ev  == Event(emNextId, kind)
           res == TrySendAll(ObserversOf(observers, key), obsEvents,
                             obsCloseCalls, EventsCap, ev)
       IN  /\ obsEvents' = res.bufs
           /\ emPanic' = IF res.panic THEN "send on closed channel" ELSE "none"
           /\ emLast' = [key |-> key, event |-> ev]
    /\ emNextId' = emNextId + 1
    /\ UNCHANGED <<observers, obsCloseCalls, unregAt, unregCalls, emCalls, clientID>>
    /\ UNCHANGED subVars
    /\ UNCHANGED notPubVars

\* MessageCreated(ctx, clientID): NewObserver, Register, make(messageChan)
\* and the two "go func()".
MessageCreated(s, key) ==
    /\ emPanic = "none"
    /\ clientID[s] = NoKey
    /\ clientID' = [clientID EXCEPT ![s] = key]
    /\ observers' = Register(observers, key, s)
    /\ cleanupPc' = [cleanupPc EXCEPT ![s] = "wait"]
    /\ fwdPc' = [fwdPc EXCEPT ![s] = "select"]
    /\ UNCHANGED <<obsEvents, obsCloseCalls, unregAt, unregCalls, emNextId, emLast,
                   emPanic, emCalls>>
    /\ UNCHANGED <<ctxDone, messageChan, messageChanClosed, fwdEvent, delivered>>
    /\ UNCHANGED notPubVars

\* The subscription's context is cancelled (the peer went away).
CtxCancel(s) ==
    /\ emPanic = "none"
    /\ clientID[s] # NoKey
    /\ ~ctxDone[s]
    /\ ctxDone' = [ctxDone EXCEPT ![s] = TRUE]
    /\ UNCHANGED <<messageChan, messageChanClosed, cleanupPc, fwdPc, fwdEvent,
                   delivered>>
    /\ UNCHANGED emVars
    /\ UNCHANGED notPubVars

\* The cleanup goroutine: "<-ctx.Done()" and
\* eventManager.Unregister(clientID, observer).
CleanupUnregister(s) ==
    /\ emPanic = "none"
    /\ cleanupPc[s] = "wait"
    /\ ctxDone[s]
    /\ Unregister(clientID[s], s)
    /\ cleanupPc' = [cleanupPc EXCEPT ![s] = "close"]
    /\ UNCHANGED <<obsEvents, emNextId, emLast, emCalls, clientID>>
    /\ UNCHANGED <<ctxDone, messageChan, messageChanClosed, fwdPc, fwdEvent,
                   delivered>>
    /\ UNCHANGED notPubVars

\* The cleanup goroutine: close(messageChan), and its end.
CleanupClose(s) ==
    /\ emPanic = "none"
    /\ cleanupPc[s] = "close"
    /\ messageChanClosed' = [messageChanClosed EXCEPT ![s] = TRUE]
    /\ cleanupPc' = [cleanupPc EXCEPT ![s] = "done"]
    /\ UNCHANGED <<ctxDone, messageChan, fwdPc, fwdEvent, delivered>>
    /\ UNCHANGED emVars
    /\ UNCHANGED notPubVars

\* "if message, ok := event.(*model.Message); ok": an event of another type
\* is dropped and the loop goes on.  (The nil event a closed and drained
\* channel yields is not a message either: that iteration changes nothing.)
AfterReceive(ev) == IF ev.kind = "Message" THEN "send" ELSE "select"

\* The forwarding goroutine: "case event := <-observer.events", which a
\* closed channel still serves while events are buffered in it.
FwdReceive(s) ==
    /\ emPanic = "none"
    /\ fwdPc[s] = "select"
    /\ obsEvents[s] # <<>>
    /\ obsEvents' = [obsEvents EXCEPT ![s] = Tail(@)]
    /\ fwdPc' = [fwdPc EXCEPT ![s] = AfterReceive(Head(obsEvents[s]))]
    /\ fwdEvent' = [fwdEvent EXCEPT ![s] =
                       IF AfterReceive(Head(obsEvents[s])) = "send"
                         THEN Head(obsEvents[s]) ELSE NoEvent]
    /\ UNCHANGED <<observers, obsCloseCalls, unregAt, unregCalls, emNextId, emLast,
                   emPanic, emCalls, clientID>>
    /\ UNCHANGED <<ctxDone, messageChan, messageChanClosed, cleanupPc, delivered>>
    /\ UNCHANGED notPubVars

\* The forwarding goroutine: "messageChan <- message".  The send waits while
\* the channel is full and panics once the channel is closed.
FwdSend(s) ==
    /\ emPanic = "none"
    /\ fwdPc[s] = "send"
    /\ IF messageChanClosed[s]
         THEN /\ emPanic' = "send on closed channel"
              /\ fwdPc' = [fwdPc EXCEPT ![s] = "panicked"]
              /\ UNCHANGED <<messageChan, delivered, fwdEvent>>
         ELSE /\ Len(messageChan[s]) < ResultCap
              /\ messageChan' = [messageChan EXCEPT ![s] = Append(@, fwdEvent[s])]
              /\ delivered' = [delivered EXCEPT ![s] = Append(@, fwdEvent[s])]
              /\ fwdEvent' = [fwdEvent EXCEPT ![s] = NoEvent]
              /\ fwdPc' = [fwdPc EXCEPT ![s] = "select"]
              /\ UNCHANGED emPanic
    /\ UNCHANGED <<observers, obsEvents, obsCloseCalls, unregAt, unregCalls, emNextId,
                   emLast, emCalls, clientID>>
    /\ UNCHANGED <<ctxDone, messageChanClosed, cleanupPc>>
    /\ UNCHANGED notPubVars

\* The forwarding goroutine: "case <-observer.closeCh: return".
FwdCloseCh(s) ==
    /\ emPanic = "none"
    /\ fwdPc[s] = "select"
    /\ obsCloseCalls[s] > 0
    /\ fwdPc' = [fwdPc EXCEPT ![s] = "done"]
    /\ UNCHANGED <<ctxDone, messageChan, messageChanClosed, cleanupPc,
                   fwdEvent, delivered>>
    /\ UNCHANGED emVars
    /\ UNCHANGED notPubVars

\* The GraphQL transport taking a message off messageChan.
Consume(s) ==
    /\ emPanic = "none"
    /\ messageChan[s] # <<>>
    /\ messageChan' = [messageChan EXCEPT ![s] = Tail(@)]
    /\ UNCHANGED <<ctxDone, messageChanClosed, cleanupPc, fwdPc, fwdEvent,
                   delivered>>
    /\ UNCHANGED emVars
    /\ UNCHANGED notPubVars

NextEvents ==
    \/ \E s \in Sub, key \in ClientKey : MessageCreated(s, key)
    \/ \E key \in ClientKey, kind \in EventKind : Broadcast(key, kind)
    \/ \E s \in Sub : CtxCancel(s)
    \/ \E s \in Sub : CleanupUnregister(s)
    \/ \E s \in Sub : CleanupClose(s)
    \/ \E s \in Sub : FwdReceive(s)
    \/ \E s \in Sub : FwdSend(s)
    \/ \E s \in Sub : FwdCloseCh(s)
    \/ \E s \in Sub : Consume(s)

(* The EventManager under an arbitrary caller: Register with an observer   *)
(* fresh from NewObserver (what every resolver does), Unregister with any  *)
(* observer under any clientID and any number of times, Broadcast, and the *)
(* owner of an observer receiving from its events channel.                 *)

CallEMRegister(key, o) ==
    /\ emPanic = "none"
    /\ emCalls < MaxEMCalls
    /\ clientID[o] = NoKey
    /\ clientID' = [clientID EXCEPT ![o] = key]
    /\ observers' = Register(observers, key, o)
    /\ emCalls' = emCalls + 1
    /\ UNCHANGED <<obsEvents, obsCloseCalls, unregAt, unregCalls, emNextId, emLast, emPanic>>
    /\ UNCHANGED subVars
    /\ UNCHANGED notPubVars

CallEMUnregister(key, o) ==
    /\ emPanic = "none"
    /\ emCalls < MaxEMCalls
    /\ Unregister(key, o)
    /\ emCalls' = emCalls + 1
    /\ UNCHANGED <<obsEvents, emNextId, emLast, clientID>>
    /\ UNCHANGED subVars
    /\ UNCHANGED notPubVars

CallEMReceive(o) ==
    /\ emPanic = "none"
    /\ obsEvents[o] # <<>>
    /\ obsEvents' = [obsEvents EXCEPT ![o] = Tail(@)]
    /\ UNCHANGED <<observers, obsCloseCalls, unregAt, unregCalls, emNextId, emLast,
                   emPanic, emCalls, clientID>>
    /\ UNCHANGED subVars
    /\ UNCHANGED notPubVars

NextEventCalls ==
    \/ \E key \in ClientKey, o \in Sub : CallEMRegister(key, o)
    \/ \E key \in ClientKey, o \in Sub : CallEMUnregister(key, o)
    \/ \E key \in ClientKey, kind \in EventKind : Broadcast(key, kind)
    \/ \E o \in Sub : CallEMReceive(o)

----------------------------------------------------------------------------
(* ChatService and EmailService (package service): the subscriptions to    *)
(* chat messages, to mentions and to emails.  A Subscribe call makes the   *)
(* channel, starts the goroutine that waits for ctx.Done() and only then   *)
(* adds the channel to the list, so the two run concurrently.  Adding,     *)
(* removing and a broadcast over one list hold that list's RWMutex and are *)
(* one step each; BroadcastMessage goes over disjoint lists in turn and    *)
(* never blocks, so it is one step as well.                                *)

\* Capacity of a subscription channel: make(chan *model.ChatMessage, 1).
SubChanCap == 1

\* Number of BroadcastMessage and broadcastEmail calls.
MaxSvcMsgs == 2

\* The channels, one for each Subscribe call.
SvcChan == {1, 2}

\* The keys of clientSubscribers: "all" (clientID == nil) and a client id.
ChatKey == {"all", "c1"}

\* The client ids messages are for.
ChatClientID == {"c1"}

\* The user ids of mentionSubscribers.
MentionUser == {"u1"}

\* msg.Mentions.
MentionLists == {<<>>, <<"u1">>}

\* The channel of no Subscribe call yet.
NoCall == [svc |-> "none", key |-> ""]

SvcMsg(id, client, mentions) == [id |-> id, client |-> client, mentions |-> mentions]

\* No broadcast yet.
NoSvcBroadcast == [svc |-> "none", msg |-> SvcMsg(0, "", <<>>)]

InitServices ==
    /\ clientSubscribers = <<>>
    /\ mentionSubscribers = <<>>
    /\ emailSubscribers = <<>>
    /\ chBuf = [ch \in SvcChan |-> <<>>]
    /\ chCloseCalls = [ch \in SvcChan |-> 0]
    /\ chCall = [ch \in SvcChan |-> NoCall]
    /\ subPc = [ch \in SvcChan |-> "none"]
    /\ unsubPc = [ch \in SvcChan |-> "idle"]
    /\ svcCtxDone = [ch \in SvcChan |-> FALSE]
    /\ svcPanic = "none"
    /\ svcNextId = 1
    /\ svcLast = NoSvcBroadcast

\* What none of the steps of the services touches.
notSvcVars == <<hubVars, procVars, calls, ioVars, roomVars, idleVars, fnVars,
                wire, emVars, subVars>>

\* s.clientSubscribers[key], nil when the map has no such key.
SubscribersOf(map, key) == IF key \in DOMAIN map THEN map[key] ELSE <<>>

\* s.clientSubscribers[key] = append(s.clientSubscribers[key], ch).
Subscribed(map, key, ch) ==
    [q \in DOMAIN map \cup {key} |->
        IF q = key THEN Append(SubscribersOf(map, key), ch) ELSE map[q]]

\* "for _, c := range ... { if c != ch { channels = append(channels, c) } }".
Without(list, ch) == SelectSeq(list, LAMBDA c : c # ch)

\* The map after unsubscribeFromMessages: the key is deleted when no channel
\* is left, and holds the channels left otherwise.
Unsubscribed(map, key, ch) ==
    LET channels == Without(SubscribersOf(map, key), ch)
    IN  IF channels = <<>>
          THEN [q \in DOMAIN map \ {key} |-> map[q]]
          ELSE [q \in DOMAIN map \cup {key} |->
                   IF q = key THEN channels ELSE map[q]]

\* The Subscribe call up to its "go func()": the channel is made and the
\* goroutine that waits for ctx.Done() is started.
StartSubscribe(ch, call) ==
    /\ svcPanic = "none"
    /\ subPc[ch] = "none"
    /\ chCall' = [chCall EXCEPT ![ch] = call]
    /\ subPc' = [subPc EXCEPT ![ch] = "spawned"]
    /\ unsubPc' = [unsubPc EXCEPT ![ch] = "wait"]
    /\ UNCHANGED <<clientSubscribers, mentionSubscribers, emailSubscribers,
                   chBuf, chCloseCalls, svcCtxDone, svcPanic, svcNextId, svcLast>>
    /\ UNCHANGED notSvcVars

\* SubscribeToMessages(ctx, clientID), before s.subscribeToMessages.
SubscribeToMessages(ch, key) ==
    /\ key \in ChatKey
    /\ StartSubscribe(ch, [svc |-> "messages", key |-> key])

\* SubscribeToMentions(ctx, userID), before s.subscribeToMentions.
SubscribeToMentions(ch, userID) ==
    /\ userID \in MentionUser
    /\ StartSubscribe(ch, [svc |-> "mentions", key |-> userID])

\* SubscribeToEmails(ctx), before s.subscribeToEmails.
SubscribeToEmails(ch) ==
    /\ ch \in SvcChan
    /\ StartSubscribe(ch, [svc |-> "emails", key |-> ""])

\* The context of a Subscribe call is cancelled, at any time from the call on.
SvcCtxCancel(ch) ==
    /\ svcPanic = "none"
    /\ subPc[ch] # "none"
    /\ ~svcCtxDone[ch]
    /\ svcCtxDone' = [svcCtxDone EXCEPT ![ch] = TRUE]
    /\ UNCHANGED <<clientSubscribers, mentionSubscribers, emailSubscribers,
                   chBuf, chCloseCalls, chCall, subPc, unsubPc, svcPanic,
                   svcNextId, svcLast>>
    /\ UNCHANGED notSvcVars

\* The rest of a Subscribe call: the channel is added and returned.
AddSubscriber(ch, svc) ==
    /\ svcPanic = "none"
    /\ subPc[ch] = "spawned"
    /\ chCall[ch].svc = svc
    /\ subPc' = [subPc EXCEPT ![ch] = "returned"]
    /\ UNCHANGED <<chBuf, chCloseCalls, chCall, unsubPc, svcCtxDone, svcPanic,
                   svcNextId, svcLast>>
    /\ UNCHANGED notSvcVars

subscribeToMessages(ch) ==
    /\ AddSubscriber(ch, "messages")
    /\ clientSubscribers' = Subscribed(clientSubscribers, chCall[ch].key, ch)
    /\ UNCHANGED <<mentionSubscribers, emailSubscribers>>

subscribeToMentions(ch) ==
    /\ AddSubscriber(ch, "mentions")
    /\ mentionSubscribers' = Subscribed(mentionSubscribers, chCall[ch].key, ch)
    /\ UNCHANGED <<clientSubscribers, emailSubscribers>>

subscribeToEmails(ch) ==
    /\ AddSubscriber(ch, "emails")
    /\ emailSubscribers' = Append(emailSubscribers, ch)
    /\ UNCHANGED <<clientSubscribers, mentionSubscribers>>

\* The goroutine of a Subscribe call: "<-ctx.Done()", then the channel is
\* taken out of the list and closed; close() of a closed channel panics.
RemoveSubscriber(ch, svc) ==
    /\ svcPanic = "none"
    /\ unsubPc[ch] = "wait"
    /\ svcCtxDone[ch]
    /\ chCall[ch].svc = svc
    /\ unsubPc' = [unsubPc EXCEPT ![ch] = "done"]
    /\ chCloseCalls' = [chCloseCalls EXCEPT ![ch] = @ + 1]
    /\ svcPanic' = IF chCloseCalls[ch] > 0 THEN "close of closed channel"
                   ELSE "none"
    /\ UNCHANGED <<chBuf, chCall, subPc, svcCtxDone, svcNextId, svcLast>>
    /\ UNCHANGED notSvcVars

unsubscribeFromMessages(ch) ==
    /\ RemoveSubscriber(ch, "messages")
    /\ clientSubscribers' = Unsubscribed(clientSubscribers, chCall[ch].key, ch)
    /\ UNCHANGED <<mentionSubscribers, emailSubscribers>>

unsubscribeFromMentions(ch) ==
    /\ RemoveSubscriber(ch, "mentions")
    /\ mentionSubscribers' = Unsubscribed(mentionSubscribers, chCall[ch].key, ch)
    /\ UNCHANGED <<clientSubscribers, emailSubscribers>>

unsubscribeFromEmails(ch) ==
    /\ RemoveSubscriber(ch, "emails")
    /\ emailSubscribers' = Without(emailSubscribers, ch)
    /\ UNCHANGED <<clientSubscribers, mentionSubscribers>>

\* broadcastToClientSubscribers(clientID, msg) on the buffers res holds:
\* nothing more is done once a send has panicked.
broadcastToClientSubscribers(res, key, msg) ==
    IF res.panic THEN res
    ELSE TrySendAll(SubscribersOf(clientSubscribers, key), res.bufs,
                    chCloseCalls, SubChanCap, msg)

\* "for _, mention := range msg.Mentions {
\*      s.broadcastToMentionSubscribers(mention.ID, msg) }".
RECURSIVE broadcastToMentionSubscribers(_, _, _)
broadcastToMentionSubscribers(res, mentions, msg) ==
    IF res.panic \/ mentions = <<>> THEN res
    ELSE broadcastToMentionSubscribers(
             TrySendAll(SubscribersOf(mentionSubscribers, Head(mentions)),
                        res.bufs, chCloseCalls, SubChanCap, msg),
             Tail(mentions), msg)

\* BroadcastMessage(msg): the "all" subscribers, the subscribers of the
\* message's client, the subscribers of each mentioned user.
BroadcastMessage(client, mentions) ==
    /\ svcPanic = "none"
    /\ svcNextId <= MaxSvcMsgs
    /\ LET msg == SvcMsg(svcNextId, client, mentions)
           all == broadcastToClientSubscribers(
                      [bufs |-> chBuf, panic |-> FALSE], "all", msg)
           cli == broadcastToClientSubscribers(all, client, msg)
           res == broadcastToMentionSubscribers(cli, mentions, msg)
       IN  /\ chBuf' = res.bufs
           /\ svcPanic' = IF res.panic THEN "send on closed channel" ELSE "none"
           /\ svcLast' = [svc |-> "chat", msg |-> msg]
    /\ svcNextId' = svcNextId + 1
    /\ UNCHANGED <<clientSubscribers, mentionSubscribers, emailSubscribers,
                   chCloseCalls, chCall, subPc, unsubPc, svcCtxDone>>
    /\ UNCHANGED notSvcVars

\* broadcastEmail(email).
broadcastEmail ==
    /\ svcPanic = "none"
    /\ svcNextId <= MaxSvcMsgs
    /\ LET msg == SvcMsg(svcNextId, "", <<>>)
           res == TrySendAll(emailSubscribers, chBuf, chCloseCalls,
                             SubChanCap, msg)
       IN  /\ chBuf' = res.bufs
           /\ svcPanic' = IF res.panic THEN "send on closed channel" ELSE "none"
           /\ svcLast' = [svc |-> "email", msg |-> msg]
    /\ svcNextId' = svcNextId + 1
    /\ UNCHANGED <<clientSubscribers, mentionSubscribers, emailSubscribers,
                   chCloseCalls, chCall, subPc, unsubPc, svcCtxDone>>
    /\ UNCHANGED notSvcVars

\* The GraphQL transport taking a message off a subscription channel.
SvcReceive(ch) ==
    /\ svcPanic = "none"
    /\ chBuf[ch] # <<>>
    /\ chBuf' = [chBuf EXCEPT ![ch] = Tail(@)]
    /\ UNCHANGED <<clientSubscribers, mentionSubscribers, emailSubscribers,
                   chCloseCalls, chCall, subPc, unsubPc, svcCtxDone, svcPanic,
                   svcNextId, svcLast>>
    /\ UNCHANGED notSvcVars

NextServices ==
    \/ \E ch \in SvcChan, key \in ChatKey : SubscribeToMessages(ch, key)
    \/ \E ch \in SvcChan, u \in MentionUser : SubscribeToMentions(ch, u)
    \/ \E ch \in SvcChan : SubscribeToEmails(ch)
    \/ \E ch \in SvcChan : SvcCtxCancel(ch)
    \/ \E ch \in SvcChan : subscribeToMessages(ch)
    \/ \E ch \in SvcChan : subscribeToMentions(ch)
    \/ \E ch \in SvcChan : subscribeToEmails(ch)
    \/ \E ch \in SvcChan : unsubscribeFromMessages(ch)
    \/ \E ch \in SvcChan : unsubscribeFromMentions(ch)
    \/ \E ch \in SvcChan : unsubscribeFromEmails(ch)
    \/ \E client \in ChatClientID, mentions \in MentionLists :
           BroadcastMessage(client, mentions)
    \/ broadcastEmail
    \/ \E ch \in SvcChan : SvcReceive(ch)

----------------------------------------------------------------------------
(* The pure functions: the three mention extractions and the identity      *)
(* serveWs gives a connection.                                              *)

\* Number of words of a content.
MaxWords == 3

\* The words contents are made of: "@1", "@2", "@1," , "hi" and "@".
Words == {At(1), At(2), Word(TRUE, 1, TRUE), Plain, Word(TRUE, NoName, FALSE)}

Contents == UNION {[1..n -> Words] : n \in 0..MaxWords}

\* The values of a query parameter; "" is what Query().Get returns for a
\* parameter that is absent.
QueryValue == {"", "alice", "bob"}

\* uuid.New().String()
NewUUID == "1b9d6bcd-bbfd-4b2d-9b5d-ab8dfbbd4bed"

\* userID[:5]
First5(id) == IF id = NewUUID THEN "1b9d6" ELSE id

\* serveWs ignoring the query parameters.
IdentityGenerated(userID, username) ==
    [userID |-> NewUUID, username |-> "User-" \o First5(NewUUID)]

\* serveWs: the identity of the connection from the query parameters
\* user_id and username.
Identity(userID, username) ==
    IF userID = "" \/ username = ""
      THEN [userID |-> NewUUID, username |-> "User-" \o First5(NewUUID)]
      ELSE [userID |-> userID, username |-> username]

NoInput == [content |-> <<>>, userID |-> "", username |-> ""]

NoOutput == [fn |-> "none"]

InitFn ==
    /\ fnIn = NoInput
    /\ fnOut = NoOutput

\* Any content and any query parameters.
InitFuncs ==
    /\ InitChat
    /\ InitIO
    /\ InitRooms
    /\ InitIdle
    /\ InitEvents
    /\ InitServices
    /\ fnIn \in [content : Contents, userID : QueryValue, username : QueryValue]
    /\ fnOut = NoOutput

notFnVars == <<hubVars, procVars, calls, ioVars, roomVars, idleVars, wire,
              pubVars>>

ApplyParseMentions ==
    /\ fnOut = NoOutput
    /\ fnOut' = [fn |-> "parseMentions", mentions |-> parseMentions(fnIn.content)]
    /\ UNCHANGED fnIn
    /\ UNCHANGED notFnVars

ApplyParseMentionsMap ==
    /\ fnOut = NoOutput
    /\ \E s \in parseMentionsMap(fnIn.content) :
         fnOut' = [fn |-> "parseMentionsMap", mentions |-> s]
    /\ UNCHANGED fnIn
    /\ UNCHANGED notFnVars

ApplyExtractMentions ==
    /\ fnOut = NoOutput
    /\ fnOut' = [fn |-> "ExtractMentions", mentions |-> ExtractMentions(fnIn.content)]
    /\ UNCHANGED fnIn
    /\ UNCHANGED notFnVars

ApplyIdentity ==
    /\ fnOut = NoOutput
    /\ fnOut' = [fn |-> "Identity", id |-> Identity(fnIn.userID, fnIn.username)]
    /\ UNCHANGED fnIn
    /\ UNCHANGED notFnVars

NextFuncs ==
    \/ ApplyParseMentions
    \/ ApplyParseMentionsMap
    \/ ApplyExtractMentions
    \/ ApplyIdentity

SpecFuncs == InitFuncs /\ [][NextFuncs]_vars

----------------------------------------------------------------------------
Next ==
    \/ \E c \in Client : Connect(c)
    \/ \E c \in Client : HubRegister(c)
    \/ HubReplayStep
    \/ \E c \in Client : SendWelcome(c)
    \/ \E c \in Client : ReadMessage(c)
    \/ \E c \in Client : ReadError(c)
    \/ \E c \in Client : HubBroadcast(c)
    \/ \E c \in Client : HubUnregister(c)
    \/ \E c \in Client : ReadPumpClose(c)
    \/ \E c \in Client : WriteMessage(c)
    \/ \E c \in Client : WriteClosed(c)
    \/ \E c \in Client : WritePingFailed(c)

\* The state before anything has run.
Init ==
    /\ InitChat
    /\ InitIO
    /\ InitRooms
    /\ InitIdle
    /\ InitFn
    /\ InitEvents
    /\ InitServices

Spec == Init /\ [][Next]_vars

SpecIO == Init /\ [][NextIO]_vars

SpecRooms == Init /\ [][NextRooms]_vars

\* The goroutines of the message path are scheduled fairly and the peers
\* keep reading: the control loop goes on with its replay and takes the
\* requests of the senders that keep waiting, a handler that can send its
\* welcome message does, writePump writes what is on its queue, and
\* autoRespondToMentions goes on with its loop.
FairnessIO ==
    /\ WF_vars(HubReplayStep)
    /\ \A c \in Client :
         /\ WF_vars(HubRegister(c))
         /\ WF_vars(SendWelcome(c))
         /\ WF_vars(BroadcastAndGo(c))
         /\ WF_vars(WriteDelivered(c))
    /\ \A i \in 1..MaxMsgs : WF_vars(autoRespondToMentions(i))

LiveSpecIO == SpecIO /\ FairnessIO

SpecEvents == Init /\ [][NextEvents]_vars

SpecEventCalls == Init /\ [][NextEventCalls]_vars

SpecServices == Init /\ [][NextServices]_vars

\* The goroutines of a subscription are scheduled fairly, and a select
\* whose close-signal case is ready takes it in the end.
FairnessEvents ==
    \A s \in Sub :
        /\ WF_vars(CleanupUnregister(s))
        /\ WF_vars(CleanupClose(s))
        /\ WF_vars(FwdSend(s))
        /\ WF_vars(FwdCloseCh(s))

LiveSpecEvents == SpecEvents /\ FairnessEvents

SpecIdle == Init /\ [][NextIdle]_vars

\* ReadMessage on a connection that was closed returns an error.
ReadErrorClosed(c) == ~connOpen[c] /\ ReadError(c)

\* The goroutines are scheduled fairly: a pump that can take a step takes
\* it, and the control loop, once it stays at its select, takes the request
\* of a sender that keeps waiting.
Fairness ==
    /\ WF_vars(HubReplayStep)
    /\ \A c \in Client :
         /\ WF_vars(HubBroadcast(c))
         /\ WF_vars(HubUnregister(c))
         /\ WF_vars(ReadErrorClosed(c))
         /\ WF_vars(ReadPumpClose(c))
         /\ WF_vars(WriteMessage(c))
         /\ WF_vars(WriteClosed(c))

LiveSpec == Spec /\ Fairness

----------------------------------------------------------------------------
(* The control loop under an arbitrary caller: any sequence of register,   *)
(* unregister and broadcast requests, with a consumer on each queue.  A    *)
(* connection is registered only while its queue is open (a ChatClient is  *)
(* registered when it is built and never after its teardown).              *)

CallRegister(c) ==
    /\ HubReady
    /\ calls < MaxCalls
    /\ closeCalls[c] = 0
    /\ RegisterCase(c)
    /\ calls' = calls + 1
    /\ UNCHANGED procVars
    /\ UNCHANGED extVars

CallUnregister(c) ==
    /\ HubReady
    /\ calls < MaxCalls
    /\ UnregisterCase(c)
    /\ calls' = calls + 1
    /\ UNCHANGED procVars
    /\ UNCHANGED extVars

CallBroadcast(c) ==
    /\ HubReady
    /\ nextId <= MaxMsgs
    /\ BroadcastCase(ChatMessage(nextId, c))
    /\ nextId' = nextId + 1
    /\ UNCHANGED <<pc, rpc, wpc, pending, connOpen, connCloseCalls, releases>>
    /\ UNCHANGED calls
    /\ UNCHANGED extVars

CallReceive(c) ==
    /\ send[c] # <<>>
    /\ send' = [send EXCEPT ![c] = Tail(@)]
    /\ UNCHANGED <<clients, history, closeCalls, hubPanicked, hubState,
                   hubClient, hubIdx, unregReqs, evicted, log, regHistory,
                   lastOp, net>>
    /\ UNCHANGED procVars
    /\ UNCHANGED calls
    /\ UNCHANGED extVars

NextCalls ==
    \/ \E c \in Client : CallRegister(c)
    \/ \E c \in Client : CallUnregister(c)
    \/ \E c \in Client : CallBroadcast(c)
    \/ \E c \in Client : CallReceive(c)
    \/ HubReplayStep

SpecCalls == Init /\ [][NextCalls]_vars

----------------------------------------------------------------------------
(* Properties *)

\* The broadcast messages put on a client's queue, in the order they were put.
HubLog(c) == SelectSeq(log[c], LAMBDA m : ~IsWelcome(m))

\* Position of a message in a sequence without repetitions.
Pos(h, m) == CHOOSE i \in 1..Len(h) : h[i] = m

\* C1: a client in h.clients has an open send queue; a queue is closed in
\* exactly the step in which its client leaves h.clients, at most once, and
\* after that the client never re-enters h.clients and nothing is put on
\* the queue.
C1_QueueClosedOnceOnLeave ==
    /\ [](/\ ~hubPanicked
          /\ \A c \in Client : /\ c \in clients => closeCalls[c] = 0
                               /\ closeCalls[c] <= 1)
    /\ [][\A c \in Client :
            /\ (closeCalls'[c] # closeCalls[c]) <=> (c \in clients /\ c \notin clients')
            /\ closeCalls[c] > 0 =>
                 /\ c \notin clients'
                 /\ closeCalls'[c] = closeCalls[c]
                 /\ log'[c] = log[c]]_vars

\* An evicted client whose later unregister request has been processed, and
\* a client closed by its unregister request.
C1_Witness ==
    \E c, d \in Client :
        /\ c # d
        /\ c \in evicted /\ unregReqs[c] = 1 /\ closeCalls[c] = 1
        /\ d \notin evicted /\ unregReqs[d] = 1 /\ closeCalls[d] = 1

\* C2: a client registered while the history is m1..mn gets m1..mn on its
\* queue, in that order and once each, before any message broadcast after
\* its registration.
C2_ReplayBeforeBroadcast ==
    \A c \in Client :
        LET got == HubLog(c)
            old == regHistory[c]
        IN  \A k \in 1..Len(got) :
                /\ k <= Len(old) => got[k] = old[k]
                /\ k > Len(old) => got[k] \notin Range(old)

\* A client that registered with two messages in the history has got both.
C2_Witness ==
    \E c \in Client :
        /\ Len(regHistory[c]) = 2
        /\ Len(HubLog(c)) = 2

\* C3: broadcasts reach a client in the order the control loop accepted
\* them, so two clients get the broadcasts they share in the same order.
C3_BroadcastOrder ==
    /\ \A c \in Client :
         LET got == HubLog(c)
         IN  \A i, j \in 1..Len(got) :
                i < j => /\ got[i] \in Range(history)
                         /\ got[j] \in Range(history)
                         /\ Pos(history, got[i]) < Pos(history, got[j])
    /\ \A c, d \in Client :
         LET gc == HubLog(c)
             gd == HubLog(d)
         IN  \A i, j \in 1..Len(gc) :
                \A k, l \in 1..Len(gd) :
                   (gc[i] = gd[k] /\ gc[j] = gd[l]) => ((i < j) <=> (k < l))

\* Two clients that have both got the same two broadcasts.
C3_Witness ==
    \E c, d \in Client :
        /\ c # d
        /\ Len(HubLog(c)) = 2
        /\ HubLog(d) = HubLog(c)
        /\ regHistory[c] = <<>>
        /\ regHistory[d] = <<>>

\* C4: a broadcast is taken whenever the control loop is at its select and
\* leaves it there; in that step a registered client with a full queue is
\* removed without getting the message, every other registered client gets
\* the message and stays.
C4_BroadcastEvictsFull ==
    /\ [](\A c \in Client :
            (HubReady /\ rpc[c] = "broadcast") => ENABLED HubBroadcast(c))
    /\ [][history' # history =>
            /\ hubState' = "select"
            /\ \A c \in clients :
                 IF Full(send[c])
                   THEN /\ c \notin clients'
                        /\ send'[c] = send[c]
                        /\ closeCalls'[c] = closeCalls[c] + 1
                   ELSE /\ c \in clients'
                        /\ send'[c] = Append(send[c], history'[Len(history')])
                        /\ Len(send'[c]) <= SendCap
                        /\ closeCalls'[c] = closeCalls[c]]_vars

\* The last broadcast evicted one client and reached another.
C4_Witness ==
    \E c, d \in Client :
        /\ history # <<>>
        /\ c \in evicted
        /\ history[Len(history)] \notin Range(log[c])
        /\ d \in clients
        /\ send[d] # <<>>
        /\ send[d][Len(send[d])] = history[Len(history)]

\* The control loop is inside the replay loop, the queue is full, and the
\* handler, itself waiting to put the welcome message on the queue, has not
\* started writePump: nothing will ever take a message off the queue.
HubStalled ==
    /\ hubState = "replay"
    /\ Full(send[hubClient])
    /\ pc[hubClient] = "welcome"

\* C5: the control loop never stalls on a connection during registration,
\* also when the history is longer than the room in the queue and nothing
\* is draining the queue yet.
C5_RegisterNeverStalls == ~HubStalled

\* C6: an unregister request for a client that is not in h.clients changes
\* nothing of the hub: no membership change, no close, no panic.
C6_UnregisterIdempotent ==
    [][\A c \in Client :
          (unregReqs'[c] # unregReqs[c] /\ c \notin clients) =>
              /\ UNCHANGED <<clients, history, send, closeCalls, hubPanicked,
                             hubState, hubClient, hubIdx, evicted, log>>
              /\ ~hubPanicked]_vars

\* One client unregistered twice and closed once, another evicted by a
\* broadcast and unregistered afterwards.
C6_Witness ==
    \E c, d \in Client :
        /\ c # d
        /\ c \notin evicted /\ unregReqs[c] = 2 /\ closeCalls[c] = 1
        /\ d \in evicted /\ unregReqs[d] = 1 /\ closeCalls[d] = 1
        /\ ~hubPanicked

\* C7 as stated: after a sequence of register/unregister calls the members
\* are the clients with a positive net count of registrations, so that two
\* registers and one unregister leave the client registered.
C7_NetCountMembership ==
    history = <<>> => clients = {c \in Client : net[c] > 0}

\* C7 as amended: after a sequence of register/unregister calls the members
\* are the clients whose last call was a register.
C7_LastCallMembership ==
    history = <<>> => clients = {c \in Client : lastOp[c] = "register"}

\* A client registered twice and unregistered once.
C7_Witness ==
    \E c \in Client :
        /\ history = <<>>
        /\ net[c] = 1
        /\ unregReqs[c] = 1
        /\ lastOp[c] = "unregister"
        /\ c \notin clients

TornDown(c) ==
    /\ wpc[c] # "none"
    /\ \/ closeCalls[c] > 0
       \/ ~connOpen[c]
       \/ rpc[c] \in {"unregister", "close", "done"}
       \/ wpc[c] = "done"

PumpsDone(c) == rpc[c] = "done" /\ wpc[c] = "done"

\* C9: if the control loop keeps coming back to its select, both pumps of a
\* connection that is being torn down eventually terminate.
C9_PumpsTerminate ==
    ([]<>HubReady) => \A c \in Client : (TornDown(c) ~> PumpsDone(c))

\* An evicted connection both of whose pumps have terminated.
C9_Witness ==
    \E c \in Client :
        /\ c \in evicted
        /\ PumpsDone(c)
        /\ send[c] = <<>>

\* C10: a readPump that has left its loop submits one unregister request
\* and the transport is released once.
C10_OneUnregisterOneRelease ==
    \A c \in Client :
        /\ unregReqs[c] <= 1
        /\ releases[c] <= 1
        /\ rpc[c] = "unregister" => unregReqs[c] = 0
        /\ rpc[c] = "close" => unregReqs[c] = 1
        /\ rpc[c] = "done" => /\ unregReqs[c] = 1
                              /\ releases[c] = 1
                              /\ ~connOpen[c]

\* Both pumps have returned: Close was called twice and released once.
C10_Witness ==
    \E c \in Client :
        /\ rpc[c] = "done"
        /\ wpc[c] = "done"
        /\ connCloseCalls[c] = 2
        /\ releases[c] = 1
        /\ unregReqs[c] = 1

\* The control loop is inside the replay loop of a client whose queue is
\* full and whose writePump has returned on a failed write: nothing will
\* ever take a message off the queue.
WriterGoneStall ==
    /\ hubState = "replay"
    /\ Full(send[hubClient])
    /\ closeCalls[hubClient] = 0
    /\ wpc[hubClient] = "done"

\* C11: a transport error on a connection ends in the unregister step of
\* that connection, which removes it and leaves the membership and the
\* queue of every other connection and the history as they are, and the
\* control loop keeps accepting requests: it is back at its select after
\* the step, and it never waits on a connection whose writePump has
\* returned on a transport error.
C11_TransportErrorIsolated ==
    /\ [][\A c \in Client :
            unregReqs'[c] # unregReqs[c] =>
               /\ c \notin clients'
               /\ history' = history
               /\ HubReady'
               /\ \A d \in Client \ {c} :
                    /\ (d \in clients') <=> (d \in clients)
                    /\ send'[d] = send[d]
                    /\ closeCalls'[d] = closeCalls[d]]_vars
    /\ [](~WriterGoneStall)

\* C12: a frame that fails to decode is discarded: no message is created
\* or handed to the control loop, the history, the membership and the
\* queues are unchanged, and the readPump that read it is at its next read
\* with its connection open.
C12_MalformedDiscarded ==
    [][\A c \in Client :
          discarded'[c] # discarded[c] =>
             /\ UNCHANGED <<nextId, pending, frames>>
             /\ UNCHANGED <<clients, history, send, log, closeCalls>>
             /\ connOpen'[c]
             /\ rpc'[c] = "read"]_vars

\* A registered client whose frame was discarded and whose next frame is
\* on its way to the control loop.
C12_Witness ==
    \E c \in Client :
        /\ discarded[c] = 1
        /\ c \in clients
        /\ rpc[c] = "broadcast"
        /\ pending[c].sender = c

\* A step of ChatHub.run that changes h.clients or h.history: the register
\* case, the unregister case or the broadcast case, taken at the select.
ChatLoopStep ==
    /\ HubReady
    /\ \/ net' # net
       \/ unregReqs' # unregReqs
       \/ Len(history') = Len(history) + 1

\* A step of Hub.Run of the room-aware hub.
RoomLoopStep == rRunSteps' = rRunSteps + 1

C14_RoomBroadcastOrder ==
    \A c, d \in RClient :
        LET gc == rLog[c]
            gd == rLog[d]
        IN  \A i, j \in 1..Len(gc) :
               \A k, l \in 1..Len(gd) :
                  (/\ gc[i] = gd[k]
                   /\ gc[j] = gd[l]
                   /\ gc[i].room # 0
                   /\ gc[i].room = gc[j].room) => ((i < j) <=> (k < l))

\* C15: over any interleaving of register and unregister requests the
\* queue of a client is closed at most once and the control loop does not
\* panic on a second close.
C15_RoomQueueClosedOnce ==
    /\ rPanic # "close of closed channel"
    /\ \A c \in RClient : rCloseCalls[c] <= 1

\* The time of the last inbound frame or pong, or the start of readPump.
LastActivity ==
    IF lastFrame >= lastPong
      THEN (IF lastFrame >= 0 THEN lastFrame ELSE 0)
      ELSE lastPong

\* C16: every inbound frame and every pong puts the read deadline a full
\* window ahead, so that a connection is closed on its deadline only when
\* no frame and no pong has arrived within the window.
C16_DeadlineFollowsActivity ==
    /\ lastFrame >= 0 => deadline >= lastFrame + Window
    /\ lastPong >= 0 => deadline >= lastPong + Window
    /\ idleClosed => now - LastActivity > Window

\* C17: the message readPump builds from a frame has an id, the sender is
\* the connection that read the frame and the content is the frame's; the
\* history holds it as built, under an id no other entry has, and every
\* copy put on a queue, by the fan-out or by the replay, is the entry of
\* the history.
C17_MessageVerbatim ==
    /\ \A c \in Client :
          rpc[c] = "broadcast" =>
             /\ pending[c].id \in 1..MaxMsgs
             /\ pending[c].sender = c
             /\ frames[pending[c].id] = [content |-> pending[c].content, from |-> c]
    /\ \A i \in 1..Len(history) :
          /\ history[i].id \in 1..MaxIds
          /\ \A j \in 1..Len(history) : history[j].id = history[i].id => j = i
          /\ frames[history[i].id] # NoFrame =>
                /\ history[i].sender = frames[history[i].id].from
                /\ history[i].content = frames[history[i].id].content
    /\ \A c \in Client :
          LET got == HubLog(c)
          IN  \A k \in 1..Len(got) : got[k] \in Range(history)

\* A message with a mention, built from a frame, that one client got from
\* the fan-out and another, registered later, from the replay.
C17_Witness ==
    \E c, d \in Client :
        \E i \in 1..Len(history) :
            /\ c # d
            /\ frames[history[i].id] # NoFrame
            /\ Len(history[i].mentions) > 0
            /\ history[i] \notin Range(regHistory[c])
            /\ history[i] \in Range(log[c])
            /\ history[i] \in Range(regHistory[d])
            /\ history[i] \in Range(log[d])

\* C20: storeMessageInDatabase is started only for a message the control
\* loop has taken; readPump is back at its read in the step that hands the
\* message over, whatever becomes of the persistence step; and the return
\* of storeMessageInDatabase, with whatever outcome, changes nothing of
\* the hub, the queues or the pumps.
C20_PersistFireAndForget ==
    /\ [](\A i \in 1..MaxIds :
            persist[i] # "none" => \E k \in 1..Len(history) : history[k].id = i)
    /\ [][\A c \in Client :
            (rpc[c] = "broadcast" /\ rpc'[c] # "broadcast") =>
                /\ rpc'[c] = "read"
                /\ persist'[pending[c].id] = "running"
                /\ history' = Append(history, pending[c])]_vars
    /\ [][\A i \in 1..MaxIds :
            (persist[i] = "running" /\ persist'[i] # "running") =>
                UNCHANGED <<hubVars, procVars>>]_vars

\* Two messages of one client in the history: the persistence step of the
\* first has not returned, that of the second has failed.
C20_Witness ==
    /\ Len(history) = 2
    /\ history[1].sender = history[2].sender
    /\ frames[history[1].id] # NoFrame
    /\ frames[history[2].id] # NoFrame
    /\ persist[history[1].id] = "running"
    /\ persist[history[2].id] = "failed"

\* The names a content mentions.
Mentioned(content) ==
    {content[i].body : i \in {j \in 1..Len(content) :
        content[j].at /\ content[j].body # NoName}}

\* The first word of a content that mentions the name n.
FirstPos(content, n) ==
    CHOOSE i \in 1..Len(content) :
        /\ content[i].at /\ content[i].body = n
        /\ \A j \in 1..(i - 1) : ~(content[j].at /\ content[j].body = n)

\* C18: each of the mention extractions returns the names the content
\* mentions, each once, in the order of their first mention.
C18_MentionsOnceInOrder ==
    fnOut.fn \in {"parseMentions", "parseMentionsMap", "ExtractMentions"} =>
        LET r == fnOut.mentions
            c == fnIn.content
        IN  /\ Range(r) = Mentioned(c)
            /\ \A i, j \in 1..Len(r) :
                  i < j => FirstPos(c, r[i]) < FirstPos(c, r[j])

\* C19: a connect request without user_id and without username gets a
\* generated id, which is none of the values a request supplies, and the
\* name "User-" followed by the first five characters of that id; a
\* request with both gets the identity it supplies.
C19_IdentityFromRequest ==
    fnOut.fn = "Identity" =>
        /\ (fnIn.userID = "" /\ fnIn.username = "") =>
              /\ fnOut.id.userID \notin QueryValue
              /\ fnOut.id.username = "User-" \o First5(fnOut.id.userID)
        /\ (fnIn.userID # "" /\ fnIn.username # "") =>
              /\ fnOut.id.userID = fnIn.userID
              /\ fnOut.id.username = fnIn.username

\* serveWs has given an identity to a request without user_id and username.
C19_Witness ==
    /\ fnOut.fn = "Identity"
    /\ fnIn.userID = ""
    /\ fnIn.username = ""
    /\ fnOut.id.username = "User-1b9d6"

\* C27: a connect request with a username and without user_id gets that
\* username as the identity of its connection, which readPump puts in the
\* sender of every message of the connection.
C27_UsernameWithoutUserID ==
    (fnOut.fn = "Identity" /\ fnIn.userID = "" /\ fnIn.username # "") =>
        fnOut.id.username = fnIn.username

\* C29: BroadcastToRoom and SendToUser never send on a client queue that
\* was closed, whatever register, unregister, SubscribeToRoom and
\* UnsubscribeFromRoom calls came before.
C29_NoSendOnClosedRoomQueue == rPanic # "send on closed channel"

\* C30: a client listed in h.rooms[r] has r in its own roomSubs, and once
\* the unregister request of a client that had registered is processed the
\* client is listed in no room.
C30_RoomIndexConsistent ==
    /\ [](\A r \in DOMAIN rooms : \A c \in rooms[r] : r \in roomSubs[c])
    /\ [][\A c \in RClient :
            (c \in rRegistered /\ c \notin rRegistered') =>
                \A r \in DOMAIN rooms' : c \notin rooms'[r]]_vars

\* C23: h.history only grows at its end: a step leaves it as it is or
\* appends one entry, and the step that takes a message from h.broadcast
\* appends that message, whoever is registered; so the history of a state
\* is a prefix of the history of every later state.
C23_HistoryAppendOnly ==
    [][/\ \/ history' = history
          \/ /\ Len(history') = Len(history) + 1
             /\ SubSeq(history', 1, Len(history)) = history
       /\ \A c \in Client :
            (rpc[c] = "broadcast" /\ rpc'[c] # "broadcast") =>
                history' = Append(history, pending[c])]_vars

\* Two messages in the history that are on nobody's queue: the first
\* broadcast evicted every connection, the second found none registered.
C23_Witness ==
    /\ Len(history) = 2
    /\ evicted = Client
    /\ clients = {}
    /\ \A c \in Client : \A i \in 1..2 : history[i] \notin Range(log[c])

\* C25: nobody sends on a client.send that was closed: the control loop
\* does not, and the handler's send of the welcome message never comes
\* after the control loop has evicted the connection and closed its queue.
C25_NoSendOnClosedQueue ==
    /\ \A c \in Client : pc[c] # "panicked"
    /\ ~(hubState = "replay" /\ closeCalls[hubClient] > 0)

\* C26: the welcome message of a connection is put on its queue after the
\* whole history the register case replays and before every message
\* broadcast after the registration; it is in no history and on no other
\* queue.
C26_WelcomeAfterReplay ==
    /\ \A c \in Client :
          \A w \in 1..Len(log[c]) :
             IsWelcome(log[c][w]) =>
                /\ log[c][w] = WelcomeMsg(c)
                /\ SubSeq(log[c], 1, w - 1) = regHistory[c]
    /\ \A i \in 1..Len(history) : ~IsWelcome(history[i])

\* The messages among the frames writePump wrote, in the order written.
Written(c) ==
    LET w == SelectSeq(wire[c], LAMBDA f : f.kind = "message")
    IN  [i \in 1..Len(w) |-> w[i].msg]

C21_NoSelfResponse ==
    /\ [][\A r \in responders :
            (r \notin responders' /\ Head(r.todo) = r.sender) =>
                UNCHANGED <<history, send, nextId, inReplyTo>>]_vars
    /\ [](\A k \in 1..Len(history) :
            LET m == history[k]
                i == inReplyTo[m.id]
            IN  i # 0 =>
                  /\ frames[i] # NoFrame
                  /\ \E j \in 1..(k - 1) : history[j].id = i
                  /\ m.sender # frames[i].from
                  /\ m.mentions = <<frames[i].from>>)

\* The responder of a message in which client 1 mentions itself has gone
\* without a response, and the message in which client 2 mentions client 1
\* has its response.
C21_Witness ==
    \E j, k, l \in 1..Len(history) :
        /\ history[j].sender = 1
        /\ history[j].mentions = <<1>>
        /\ frames[history[j].id] # NoFrame
        /\ \A r \in responders : r.replyTo # history[j].id
        /\ \A n \in 1..MaxIds : inReplyTo[n] # history[j].id
        /\ history[k].sender = 2
        /\ history[k].mentions = <<1>>
        /\ inReplyTo[history[l].id] = history[k].id
        /\ history[l].sender = 1

\* The message with the id i is in the history.
InHistory(i) == \E k \in 1..Len(history) : history[k].id = i

\* The history entry with the id i.
Original(i) == history[CHOOSE k \in 1..Len(history) : history[k].id = i]

\* The mention entries of the message i that autoRespondToMentions is to
\* answer: those that are not its sender.
Owed(i) == SelectSeq(Original(i).mentions, LAMBDA n : n # Original(i).sender)

\* The responses to the message i, in the order of the history.
Responses(i) == SelectSeq(history, LAMBDA m : inReplyTo[m.id] = i)

\* The message i came in a frame, is in the history and mentions somebody
\* other than its sender.
Mentioning(i) ==
    /\ frames[i] # NoFrame
    /\ InHistory(i)
    /\ Owed(i) # <<>>

\* Every mention entry of the message i has its response, in order.
Answered(i) ==
    /\ InHistory(i)
    /\ Len(Responses(i)) = Len(Owed(i))
    /\ \A k \in 1..Len(Owed(i)) : Responses(i)[k].sender = Owed(i)[k]

\* C22: a message of a client that mentions somebody other than its sender
\* eventually has one response per such mention entry in the history, each
\* with the mentioned name as its sender (as long as the model has ids left
\* for the responses).
C22_MentionsEventuallyAnswered ==
    \A i \in 1..MaxMsgs :
        (Mentioning(i) ~> (Answered(i) \/ nextId > MaxIds))

\* autoRespondToMentions is running for the message i.
Responding(i) == \E r \in responders : r.replyTo = i

\* C28: autoRespondToMentions runs only for messages that came in a frame,
\* never for a response; a message has at most as many responses as it has
\* mention entries and a response has none; and the goroutine started for
\* a message eventually returns (as long as the model has ids left for its
\* responses).
C28_NoCascade ==
    /\ [](\A r \in responders :
            /\ frames[r.replyTo] # NoFrame
            /\ inReplyTo[r.replyTo] = 0)
    /\ [](\A i \in 1..MaxIds :
            InHistory(i) =>
               /\ Len(Responses(i)) <= Len(Original(i).mentions)
               /\ inReplyTo[i] # 0 => Responses(i) = <<>>)
    /\ \A i \in 1..MaxMsgs :
          (Responding(i) ~> (~Responding(i) \/ nextId > MaxIds))

----------------------------------------------------------------------------
\* C31: in the room-aware hub h.rooms never keeps an entry for a room that
\* has no subscriber: an unsubscribe or unregister that removes the last
\* subscriber of a room removes the room's key as well.
C31_NoEmptyRoom ==
    \A r \in DOMAIN rooms : rooms[r] # {}

\* A client was unregistered while it was subscribed to the room (its
\* roomSubs still name the room) and the room has no entry any more.
C31_Witness ==
    /\ rPanic = "none"
    /\ \E c \in RClient, r \in Room :
         /\ rCloseCalls[c] = 1
         /\ r \in roomSubs[c]
         /\ r \notin DOMAIN rooms

----------------------------------------------------------------------------
\* C32: in the subscription resolvers, once the cleanup goroutine has closed
\* the typed result channel the forwarding goroutine never sends on it,
\* whether events are still buffered in the observer's channel or the
\* forwarder is waiting on a full result channel.
C32_NoSendOnClosedResult ==
    \A s \in Sub : fwdPc[s] # "panicked"

\* The observers the EventManager holds under some key.
Listed == UNION {Range(observers[key]) : key \in DOMAIN observers}

\* C33: Broadcast never sends on a closed observer channel (the EventManager
\* does not panic, and no observer it holds is closed); an observer's
\* channels are closed at most once, however often Unregister is called for
\* it; and no key of the observers map is left with an empty slice.
C33_ObserverChannelsSafe ==
    /\ emPanic = "none" \/ \E s \in Sub : fwdPc[s] = "panicked"
    /\ \A o \in Listed : obsCloseCalls[o] = 0
    /\ \A o \in Sub : obsCloseCalls[o] <= 1
    /\ \A key \in DOMAIN observers : observers[key] # <<>>

\* Unregister was called twice for an observer, which was the last one of
\* its client, and Broadcast was called for that client afterwards.
C33_Witness ==
    \E o \in Sub :
        /\ unregCalls[o] >= 2
        /\ obsCloseCalls[o] = 1
        /\ clientID[o] \notin DOMAIN observers
        /\ emLast.key = clientID[o]
        /\ emLast.event.id >= unregAt[o]
        /\ emPanic = "none"

\* C36: once the context is cancelled and Unregister has closed the
\* observer's channels, the forwarding goroutine returns in the end, and
\* nothing it puts on the result channel was broadcast after the Unregister.
C36_ForwarderTerminates ==
    /\ \A s \in Sub :
         (ctxDone[s] /\ obsCloseCalls[s] > 0) ~> (fwdPc[s] = "done")
    /\ [](\A s \in Sub :
            obsCloseCalls[s] > 0 =>
                \A i \in 1..Len(delivered[s]) : delivered[s][i].id < unregAt[s])

----------------------------------------------------------------------------
\* The channels the subscriber lists of the two services hold.
SvcListed ==
    UNION {Range(clientSubscribers[key]) : key \in DOMAIN clientSubscribers}
    \cup UNION {Range(mentionSubscribers[u]) : u \in DOMAIN mentionSubscribers}
    \cup Range(emailSubscribers)

\* C34: in ChatService and EmailService no closed channel is ever in a
\* subscriber list, so that no broadcast sends on a closed channel, also
\* when the context is cancelled before the subscription is added.
C34_NoClosedSubscriber ==
    /\ \A ch \in SvcListed : chCloseCalls[ch] = 0
    /\ svcPanic # "send on closed channel"

\* The channels a broadcast goes over.
Covered(b) ==
    IF b.svc = "email" THEN Range(emailSubscribers)
    ELSE Range(SubscribersOf(clientSubscribers, "all"))
         \cup Range(SubscribersOf(clientSubscribers, b.msg.client))
         \cup UNION {Range(SubscribersOf(mentionSubscribers, b.msg.mentions[i])) :
                        i \in 1..Len(b.msg.mentions)}

\* C35: a broadcast of ChatService or EmailService drops the message for
\* the subscribers whose buffer is full, and for them only: every step that
\* broadcasts leaves the lists as they are, leaves a full buffer as it is
\* and appends the message to the buffer of every other subscriber.
C35_DropOnlyForFull ==
    [][svcNextId' = svcNextId + 1 =>
          /\ UNCHANGED <<clientSubscribers, mentionSubscribers, emailSubscribers>>
          /\ \A ch \in Covered(svcLast') :
                chCloseCalls[ch] = 0 =>
                    chBuf'[ch] = IF Len(chBuf[ch]) >= SubChanCap
                                   THEN chBuf[ch]
                                   ELSE Append(chBuf[ch], svcLast'.msg)]_vars

====
